---- MODULE Spec2Model ----
(***************************************************************************)
(* Model of ealebed/observer: the EndpointSlice (membership) reconciler    *)
(* and the Service (lifecycle) reconciler converging one relational table. *)
(*                                                                         *)
(* Cluster objects and table rows are values of the state; every I/O       *)
(* boundary of a reconciler (Get, List, Begin, Exec, Commit) is one step.  *)
(* The store is modelled at statement level: a statement is atomic, the    *)
(* statements of an open transaction are buffered and take effect on the   *)
(* committed table at Commit, and are dropped on Rollback.                 *)
(***************************************************************************)
EXTENDS Integers, Sequences, FiniteSets, TLC

\* ------------------------------------------------------------------ bounds
\* Highest number of endpoints of the EndpointSlices of one cluster in SpecBuild.
MaxEndpoints == 2
\* Highest transaction timestamp: at most MaxClock transactions are begun.
MaxClock == 2

\* Highest number of clauses of a selector in SpecMatch.
MaxClauses == 2

\* ------------------------------------------------------- program constants
\* flag "requeue-after", in seconds
RequeueAfter == 60
LabelServiceName == "kubernetes.io/service-name"
\* flag "cluster"
ClusterName == "c1"
\* controller.Options of both SetupWithManager
MaxConcurrentReconciles == 1

\* ------------------------------------------------ strings as byte sequences
\* A Go string that the code scans is a sequence of one-character strings.
Whitespace == {" ", "\t", "\n"}

RECURSIVE Str(_)
\* the Go string made of the characters of cs
Str(cs) == IF cs = <<>> THEN "" ELSE Head(cs) \o Str(Tail(cs))

RECURSIVE IndexFrom(_, _, _)
\* least i >= from with s[i] = c, or 0
IndexFrom(s, c, from) ==
    IF from > Len(s) THEN 0
    ELSE IF s[from] = c THEN from
    ELSE IndexFrom(s, c, from + 1)

RECURSIVE Split(_, _)
\* strings.Split(s, sep) for a one-character separator
Split(s, sep) ==
    LET i == IndexFrom(s, sep, 1)
    IN  IF i = 0 THEN <<s>>
        ELSE <<SubSeq(s, 1, i - 1)>> \o Split(SubSeq(s, i + 1, Len(s)), sep)

RECURSIVE LastIndex(_, _, _)
\* greatest i <= from with s[i] = c, or 0
LastIndex(s, c, from) ==
    IF from = 0 THEN 0
    ELSE IF s[from] = c THEN from
    ELSE LastIndex(s, c, from - 1)

\* mutant: the clause is cut at its last separator
SplitN2_last(s, sep) ==
    LET i == LastIndex(s, sep, Len(s))
    IN  IF i = 0 THEN <<s>>
        ELSE <<SubSeq(s, 1, i - 1), SubSeq(s, i + 1, Len(s))>>

\* strings.SplitN(s, sep, 2) for a one-character separator
SplitN2(s, sep) ==
    LET i == IndexFrom(s, sep, 1)
    IN  IF i = 0 THEN <<s>>
        ELSE <<SubSeq(s, 1, i - 1), SubSeq(s, i + 1, Len(s))>>

RECURSIVE TrimLeft(_)
TrimLeft(s) ==
    IF s # <<>> /\ Head(s) \in Whitespace THEN TrimLeft(Tail(s)) ELSE s

RECURSIVE TrimRight(_)
TrimRight(s) ==
    IF s # <<>> /\ s[Len(s)] \in Whitespace
    THEN TrimRight(SubSeq(s, 1, Len(s) - 1)) ELSE s

\* strings.TrimSpace
TrimSpace(s) == TrimRight(TrimLeft(s))

\* m[k] of a Go map[string]string: the zero value "" for a missing key
MapGet(m, k) == IF k \in DOMAIN m THEN m[k] ELSE ""

NoLabels == [k \in {} |-> ""]

\* ----------------------------------------------------------- matchKV
RECURSIVE matchParts_emptyIsMalformed(_, _)
\* mutant: an empty clause is not skipped
matchParts_emptyIsMalformed(lbls, parts) ==
    IF parts = <<>> THEN TRUE
    ELSE LET p  == TrimSpace(Head(parts))
             kv == SplitN2(p, "=")
         IN  IF Len(kv) # 2 THEN FALSE
             ELSE IF MapGet(lbls, Str(kv[1])) # Str(kv[2]) THEN FALSE
             ELSE matchParts_emptyIsMalformed(lbls, Tail(parts))

RECURSIVE matchParts_skipsMalformed(_, _)
\* mutant: a clause without separator is skipped
matchParts_skipsMalformed(lbls, parts) ==
    IF parts = <<>> THEN TRUE
    ELSE LET p  == TrimSpace(Head(parts))
             kv == SplitN2(p, "=")
         IN  IF p = <<>> THEN matchParts_skipsMalformed(lbls, Tail(parts))
             ELSE IF Len(kv) # 2 THEN matchParts_skipsMalformed(lbls, Tail(parts))
             ELSE IF MapGet(lbls, Str(kv[1])) # Str(kv[2]) THEN FALSE
             ELSE matchParts_skipsMalformed(lbls, Tail(parts))

RECURSIVE matchParts_noTrim(_, _)
\* mutant: the clause is not trimmed
matchParts_noTrim(lbls, parts) ==
    IF parts = <<>> THEN TRUE
    ELSE LET p  == Head(parts)
             kv == SplitN2(p, "=")
         IN  IF p = <<>> THEN matchParts_noTrim(lbls, Tail(parts))
             ELSE IF Len(kv) # 2 THEN FALSE
             ELSE IF MapGet(lbls, Str(kv[1])) # Str(kv[2]) THEN FALSE
             ELSE matchParts_noTrim(lbls, Tail(parts))

RECURSIVE matchParts(_, _)
\* the loop of matchKV over the clauses still to visit
matchParts(lbls, parts) ==
    IF parts = <<>> THEN TRUE
    ELSE LET p  == TrimSpace(Head(parts))
             kv == SplitN2(p, "=")
         IN  IF p = <<>> THEN matchParts(lbls, Tail(parts))
             ELSE IF Len(kv) # 2 THEN FALSE
             ELSE IF MapGet(lbls, Str(kv[1])) # Str(kv[2]) THEN FALSE
             ELSE matchParts(lbls, Tail(parts))

matchKV(lbls, sel) == matchParts(lbls, Split(sel, ","))

\* ------------------------------------------------- sanitizeTableIdent
Quote == "\""
\* stands for the byte 0
Nul == "NUL"

RECURSIVE ReplaceAll(_, _, _)
\* strings.ReplaceAll(s, old, new) for a one-character old
ReplaceAll(s, old, new) ==
    IF s = <<>> THEN <<>>
    ELSE (IF Head(s) = old THEN new ELSE <<Head(s)>>) \o ReplaceAll(Tail(s), old, new)

\* mutant: a quote inside the part is not doubled
QuoteIdent_noEscape(part) ==
    <<Quote>> \o ReplaceAll(part, Nul, <<>>) \o <<Quote>>

\* one part in pgx.Identifier.Sanitize: the bytes 0 are dropped, the quotes
\* doubled, and the part is put between quotes
QuoteIdent(part) ==
    <<Quote>> \o ReplaceAll(ReplaceAll(part, Nul, <<>>), Quote, <<Quote, Quote>>) \o <<Quote>>

RECURSIVE Sanitize(_)
\* pgx.Identifier(parts).Sanitize(): the quoted parts joined by "."
Sanitize(parts) ==
    IF parts = <<>> THEN <<>>
    ELSE IF Len(parts) = 1 THEN QuoteIdent(parts[1])
    ELSE QuoteIdent(Head(parts)) \o <<".">> \o Sanitize(Tail(parts))

\* "public.server"
DefaultTable == <<"p", "u", "b", "l", "i", "c", ".", "s", "e", "r", "v", "e", "r">>

sanitizeTableIdent(name) ==
    Sanitize(Split(IF name = <<>> THEN DefaultTable ELSE name, "."))

\* ------------------------------------------------------------------ state
VARIABLES
    LabelSelector,  \* EndpointSliceReconciler.LabelSelector (a byte sequence)
    slices,         \* cluster: EndpointSlice objects by <<namespace, name>>
    services,       \* cluster: keys <<namespace, name>> of the Service objects
    table,          \* the committed rows of the destination table
    clock,          \* timestamp of the latest transaction of the store
    esPc,           \* position of the EndpointSlice worker in Reconcile
    req,            \* its request key, <<>> when idle
    es,             \* what Reconcile reads of the fetched EndpointSlice: namespace, labels
    list,           \* list.Items
    desired,        \* map uid -> endpointRow
    tx,             \* the open transaction and its buffered statements
    esResult,       \* (ctrl.Result, error) returned by the EndpointSlice Reconcile
    esLog,          \* record written by its logger
    svcPc,          \* position of the Service worker
    svcResult,      \* (ctrl.Result, error) returned by the Service Reconcile
    svcLog,         \* record written by its logger
    svcStmts,       \* number of statements it executed
    svcQueue,       \* keys of Service events waiting for the Service worker
    svcTbl,         \* the quoted table identifier of its statement, <<>> when none
    svcDel,         \* its DELETE while it waits for a row lock, NoDel otherwise
    env,            \* the process environment: the variables that are set
    args,           \* the value of the command line's flag "table", <<>> when not given
    mainPc,         \* position of main
    pool,           \* what newPoolFromEnv returned
    TableName,      \* main's tableName, then the reconcilers' TableName
    impl            \* which Reconcile of the EndpointSliceReconciler is built in

vars == <<LabelSelector, slices, services, table, clock, esPc, req,
          es, list, desired, tx, esResult, esLog, svcPc, svcResult, svcLog, svcStmts,
          svcQueue, svcTbl, svcDel, env, args, mainPc, pool, TableName, impl>>

\* what main sets up before the manager starts
config      == <<LabelSelector, TableName, env, args, mainPc, pool, impl>>
clusterVars == <<slices, services>>
esLocals    == <<req, es, list, desired>>
svcLocals   == <<svcPc, svcResult, svcLog, svcStmts, svcTbl, svcDel>>
svcVars     == <<svcLocals, svcQueue>>

\* ------------------------------------------------------------- main
\* os.Getenv: the empty string for a variable that is not set
Getenv(e, k) == IF k \in DOMAIN e THEN e[k] ELSE <<>>

\* getenv(k, def) of main
getenv(e, k, def) == IF Getenv(e, k) # <<>> THEN Getenv(e, k) ELSE def

\* "server", the default of the flag "table" when TABLE_NAME gives none
FlagDefaultTable == <<"s", "e", "r", "v", "e", "r">>

\* flag.StringVar(&tableName, "table", getenv("TABLE_NAME", "server"), ...)
\* and flag.Parse: the flag's value when given, its default otherwise
flagTable(e, a) ==
    IF a # <<>> THEN a[1] ELSE getenv(e, "TABLE_NAME", FlagDefaultTable)

RequiredPG == {"PGHOST", "PGUSER", "PGPASSWORD", "PGDATABASE"}

MissingPGEnv == "missing PG env vars (need PGHOST, PGUSER, PGPASSWORD, PGDATABASE)"

\* what the dsn of newPoolFromEnv says
poolConfig(e) ==
    [host     |-> Getenv(e, "PGHOST"),
     port     |-> getenv(e, "PGPORT", <<"5", "4", "3", "2">>),
     user     |-> Getenv(e, "PGUSER"),
     password |-> Getenv(e, "PGPASSWORD"),
     dbname   |-> Getenv(e, "PGDATABASE"),
     sslmode  |-> getenv(e, "PGSSLMODE", <<"r", "e", "q", "u", "i", "r", "e">>),
     pool_max_conns |-> 4]

NoPool == [err |-> "none", cfg |-> <<>>, connects |-> 0]

\* The repository holds Reconcile twice: as one function
\* (internal/controller/endpointslice_controller.go) and refactored into
\* buildDesiredRows, endpointToRow, syncToDatabase, upsertRows and pruneRows.
Impls == {"refactored", "inline"}

\* no DELETE of the Service worker is waiting
NoDel == [waiting |-> FALSE, key |-> <<>>, snap |-> {}, held |-> {}]

\* what main leaves alone
mainUnchanged ==
    UNCHANGED <<LabelSelector, env, args, impl, clusterVars, table, clock, esPc,
                esLocals, tx, esResult, esLog, svcVars>>

\* the flags are parsed
mainFlags ==
    /\ mainPc = "flags"
    /\ TableName' = flagTable(env, args)
    /\ mainPc' = "postgres"
    /\ UNCHANGED pool
    /\ mainUnchanged

\* mutant: the password may be missing
newPoolFromEnv_passwordOptional(out) ==
    /\ mainPc = "postgres"
    /\ UNCHANGED TableName
    /\ mainUnchanged
    /\ IF \E k \in RequiredPG \ {"PGPASSWORD"} : Getenv(env, k) = <<>>
       THEN /\ pool' = [err |-> MissingPGEnv, cfg |-> <<>>, connects |-> 0]
            /\ mainPc' = "exit"
       ELSE IF out = "parse"
       THEN /\ pool' = [err |-> "parse", cfg |-> <<>>, connects |-> 0]
            /\ mainPc' = "exit"
       ELSE IF out = "err"
       THEN /\ pool' = [err |-> "connect", cfg |-> <<poolConfig(env)>>, connects |-> 1]
            /\ mainPc' = "exit"
       ELSE /\ pool' = [err |-> "", cfg |-> <<poolConfig(env)>>, connects |-> 1]
            /\ mainPc' = "running"

\* newPoolFromEnv and what main does with its result: os.Exit(1) on an
\* error, the reconciler set up and the manager started otherwise.
\* pgxpool.ParseConfig may refuse the dsn and pgxpool.NewWithConfig may fail.
newPoolFromEnv(out) ==
    /\ mainPc = "postgres"
    /\ UNCHANGED TableName
    /\ mainUnchanged
    /\ IF \E k \in RequiredPG : Getenv(env, k) = <<>>
       THEN /\ pool' = [err |-> MissingPGEnv, cfg |-> <<>>, connects |-> 0]
            /\ mainPc' = "exit"
       ELSE IF out = "parse"
       THEN /\ pool' = [err |-> "parse", cfg |-> <<>>, connects |-> 0]
            /\ mainPc' = "exit"
       ELSE IF out = "err"
       THEN /\ pool' = [err |-> "connect", cfg |-> <<poolConfig(env)>>, connects |-> 1]
            /\ mainPc' = "exit"
       ELSE /\ pool' = [err |-> "", cfg |-> <<poolConfig(env)>>, connects |-> 1]
            /\ mainPc' = "running"

\* an environment with which the process starts
RunEnv ==
    ("PGHOST" :> <<"h">>) @@ ("PGUSER" :> <<"u">>) @@ ("PGPASSWORD" :> <<"p">>)
    @@ ("PGDATABASE" :> <<"d">>)

\* main has started the manager: no TABLE_NAME and no flag "table"
Started ==
    /\ env = RunEnv
    /\ args = <<>>
    /\ mainPc = "running"
    /\ pool = [err |-> "", cfg |-> <<poolConfig(RunEnv)>>, connects |-> 1]
    /\ TableName = flagTable(RunEnv, <<>>)
    /\ svcTbl = <<>>
    /\ svcDel = NoDel
    /\ impl = "refactored"

\* ------------------------------------------------------- endpointToRow
\* A nil pointer is the empty sequence, a non-nil pointer a one-element one.
\* mutant: an unset readiness flag is taken as not ready
endpointToRow_unsetNotReady(ep, namespace, service) ==
    IF ep.Ready = <<>> \/ ~ep.Ready[1] THEN <<>>
    ELSE IF Len(ep.Addresses) = 0 THEN <<>>
    ELSE LET ip     == ep.Addresses[1]
             isPod  == ep.TargetRef # <<>> /\ ep.TargetRef[1].Kind = "Pod"
             uid0   == IF isPod THEN ep.TargetRef[1].UID ELSE ""
             name   == IF isPod THEN ep.TargetRef[1].Name ELSE ""
             uid    == IF uid0 = ""
                       THEN namespace \o "/" \o service \o "/" \o ip
                       ELSE uid0
         IN  <<[UID |-> uid, Name |-> name, IP |-> ip]>>

\* mutant: the reference's uid and name are taken whatever its kind
endpointToRow_anyKind(ep, namespace, service) ==
    IF ep.Ready # <<>> /\ ~ep.Ready[1] THEN <<>>
    ELSE IF Len(ep.Addresses) = 0 THEN <<>>
    ELSE LET ip     == ep.Addresses[1]
             isRef  == ep.TargetRef # <<>>
             uid0   == IF isRef THEN ep.TargetRef[1].UID ELSE ""
             name   == IF isRef THEN ep.TargetRef[1].Name ELSE ""
             uid    == IF uid0 = ""
                       THEN namespace \o "/" \o service \o "/" \o ip
                       ELSE uid0
         IN  <<[UID |-> uid, Name |-> name, IP |-> ip]>>

endpointToRow(ep, namespace, service) ==
    IF ep.Ready # <<>> /\ ~ep.Ready[1] THEN <<>>
    ELSE IF Len(ep.Addresses) = 0 THEN <<>>
    ELSE LET ip     == ep.Addresses[1]
             isPod  == ep.TargetRef # <<>> /\ ep.TargetRef[1].Kind = "Pod"
             uid0   == IF isPod THEN ep.TargetRef[1].UID ELSE ""
             name   == IF isPod THEN ep.TargetRef[1].Name ELSE ""
             uid    == IF uid0 = ""
                       THEN namespace \o "/" \o service \o "/" \o ip
                       ELSE uid0
         IN  <<[UID |-> uid, Name |-> name, IP |-> ip]>>

\* mutant: the first entry of a key is kept
MapPut_keepFirst(m, k, v) ==
    [x \in DOMAIN m \cup {k} |-> IF x \in DOMAIN m THEN m[x] ELSE v]

\* desired[row.UID] = row
MapPut(m, k, v) == [x \in DOMAIN m \cup {k} |-> IF x = k THEN v ELSE m[x]]

NoRows == [u \in {} |-> [UID |-> "", Name |-> "", IP |-> ""]]

RECURSIVE addEndpoints(_, _, _, _)
\* the inner loop of buildDesiredRows over sl.Endpoints
addEndpoints(d, eps, namespace, service) ==
    IF eps = <<>> THEN d
    ELSE LET row == endpointToRow(Head(eps), namespace, service)
             d2  == IF row # <<>> THEN MapPut(d, row[1].UID, row[1]) ELSE d
         IN  addEndpoints(d2, Tail(eps), namespace, service)

RECURSIVE addSlices_noFilter(_, _, _)
\* mutant: the listed objects are not checked against the selector
addSlices_noFilter(d, items, service) ==
    IF items = <<>> THEN d
    ELSE addSlices_noFilter(
             addEndpoints(d, Head(items).Endpoints, Head(items).Namespace, service),
             Tail(items), service)

RECURSIVE addSlices(_, _, _)
\* the outer loop of buildDesiredRows over list.Items
addSlices(d, items, service) ==
    IF items = <<>> THEN d
    ELSE LET sl == Head(items)
             d2 == IF LabelSelector # <<>> /\ ~matchKV(sl.Labels, LabelSelector)
                   THEN d
                   ELSE addEndpoints(d, sl.Endpoints, sl.Namespace, service)
         IN  addSlices(d2, Tail(items), service)

buildDesiredRows(items, service) == addSlices(NoRows, items, service)

\* ------------------------------------------------------------- the store
\* mutant: the inserted row is flagged not ready
NewRow_notReady(a, now) ==
    [cluster |-> a[1], namespace |-> a[2], service |-> a[3], pod_uid |-> a[4],
     pod_name |-> a[5], pod_ip |-> a[6], ready |-> FALSE,
     first_seen |-> now, last_seen |-> now]

\* A row of the table (schema of Readme_copy.md); timestamps are clock values.
NewRow(a, now) ==
    [cluster |-> a[1], namespace |-> a[2], service |-> a[3], pod_uid |-> a[4],
     pod_name |-> a[5], pod_ip |-> a[6], ready |-> TRUE,
     first_seen |-> now, last_seen |-> now]

SameKey(r, a) ==
    r.cluster = a[1] /\ r.namespace = a[2] /\ r.service = a[3] /\ r.pod_uid = a[4]

InPartition(r, a) ==
    r.cluster = a[1] /\ r.namespace = a[2] /\ r.service = a[3]

\* mutant: a plain INSERT, the row is added whether or not the key is there
UpsertStmt_insertsOnly(T, a, now) == T \cup {NewRow(a, now)}

\* mutant: the conflict branch also sets first_seen
UpsertStmt_resetFirstSeen(T, a, now) ==
    LET hit == {r \in T : SameKey(r, a)}
    IN  (T \ hit) \cup {NewRow(<<a[1], a[2], a[3], a[4],
                                 IF hit = {} THEN a[5] ELSE (CHOOSE r \in hit : TRUE).pod_name,
                                 a[6]>>, now)}

\* mutant: the conflict branch also sets pod_name
UpsertStmt_renames(T, a, now) ==
    LET hit == {r \in T : SameKey(r, a)}
    IN  IF hit = {} THEN T \cup {NewRow(a, now)}
        ELSE (T \ hit) \cup
             {[r EXCEPT !.pod_name = a[5], !.pod_ip = a[6], !.ready = TRUE,
                        !.last_seen = now] : r \in hit}

\* INSERT ... ON CONFLICT (cluster, namespace, service, pod_uid) DO UPDATE SET
\* pod_ip = EXCLUDED.pod_ip, ready = true, last_seen = now()
\* with a = <<cluster, namespace, service, uid, name, ip>>
UpsertStmt(T, a, now) ==
    LET hit == {r \in T : SameKey(r, a)}
    IN  IF hit = {} THEN T \cup {NewRow(a, now)}
        ELSE (T \ hit) \cup
             {[r EXCEPT !.pod_ip = a[6], !.ready = TRUE, !.last_seen = now] : r \in hit}

\* mutant: pod_uid <> ANY($4)
PruneStmt_any(T, a) ==
    {r \in T : ~(InPartition(r, a) /\ \E u \in a[4] : r.pod_uid # u)}

\* mutant: the service is not part of the condition
PruneStmt_anyService(T, a) ==
    {r \in T : ~(r.cluster = a[1] /\ r.namespace = a[2] /\ r.pod_uid \notin a[4])}

\* DELETE ... WHERE cluster = $1 AND namespace = $2 AND service = $3
\*   AND pod_uid <> ALL($4), with a = <<cluster, namespace, service, uids>>
PruneStmt(T, a) == {r \in T : ~(InPartition(r, a) /\ r.pod_uid \notin a[4])}

\* mutant: the namespace is not part of the condition
DeleteStmt_anyNamespace(T, a) == {r \in T : ~(r.cluster = a[1] /\ r.service = a[3])}

\* DELETE ... WHERE cluster=$1 AND namespace=$2 AND service=$3
DeleteStmt(T, a) == {r \in T : ~InPartition(r, a)}

Exec(T, stmt, now) ==
    CASE stmt.sql = "upsert" -> UpsertStmt(T, stmt.args, now)
      [] stmt.sql = "prune"  -> PruneStmt(T, stmt.args)
      [] stmt.sql = "delete" -> DeleteStmt(T, stmt.args)

RECURSIVE ExecAll(_, _, _)
\* the statements of a transaction, in the order they were executed
ExecAll(T, stmts, now) ==
    IF stmts = <<>> THEN T
    ELSE ExecAll(Exec(T, Head(stmts), now), Tail(stmts), now)

NoTx == [open |-> FALSE, now |-> 0, stmts |-> <<>>]

\* ------------------------------------------------------------ results
Result(requeue, err) == [RequeueAfter |-> requeue, err |-> err]
NoResult == Result(0, "none")
NoLog == [msg |-> "", namespace |-> "", service |-> "", count |-> 0]

Outcomes == {"ok", "err"}

\* ------------------------------------------------- the cluster's objects
Pod(uid, name) == <<[Kind |-> "Pod", UID |-> uid, Name |-> name]>>

EpPod1     == [Addresses |-> <<"10.0.0.1">>, Ready |-> <<TRUE>>,
               TargetRef |-> Pod("u1", "p1")]
EpPod1Move == [Addresses |-> <<"10.0.0.9", "10.0.0.8">>, Ready |-> <<>>,
               TargetRef |-> Pod("u1", "p1b")]
EpBare     == [Addresses |-> <<"10.0.0.2">>, Ready |-> <<>>, TargetRef |-> <<>>]
EpNotReady == [Addresses |-> <<"10.0.0.3">>, Ready |-> <<FALSE>>,
               TargetRef |-> Pod("u3", "p3")]
EpNoAddr   == [Addresses |-> <<>>, Ready |-> <<TRUE>>,
               TargetRef |-> Pod("u4", "p4")]
EpNode     == [Addresses |-> <<"10.0.0.5">>, Ready |-> <<TRUE>>,
               TargetRef |-> <<[Kind |-> "Node", UID |-> "n5", Name |-> "node5"]>>]

SvcLabel(s) == (LabelServiceName :> s)
Tier        == ("t" :> "w")

BodyA1    == [Labels |-> SvcLabel("svcA") @@ Tier, Endpoints |-> <<EpPod1, EpBare>>]
BodyA2    == [Labels |-> SvcLabel("svcA") @@ Tier,
              Endpoints |-> <<EpPod1Move, EpNotReady>>]
BodyANoT  == [Labels |-> SvcLabel("svcA"), Endpoints |-> <<EpBare>>]
BodyNoSvc == [Labels |-> Tier, Endpoints |-> <<EpPod1>>]
BodyEmpty == [Labels |-> SvcLabel("svcA") @@ Tier,
              Endpoints |-> <<EpNoAddr, EpNotReady>>]
\* BodyA1 after its first endpoint has turned not ready
BodyA1Down == [Labels |-> SvcLabel("svcA") @@ Tier,
               Endpoints |-> <<[EpPod1 EXCEPT !.Ready = <<FALSE>>], EpBare>>]
\* the service-name label is there and empty
BodyBlank == [Labels |-> SvcLabel("") @@ Tier, Endpoints |-> <<EpPod1>>]

SliceKeys   == {<<"ns1", "a">>, <<"ns1", "b">>, <<"ns2", "a">>}
ServiceKeys == {<<"ns1", "svcA">>, <<"ns1", "svcB">>}
\* the Service objects that come and go
LiveServices == {<<"ns1", "svcA">>}
\* the EndpointSlices that change while the process runs
LiveSlices == {<<"ns1", "a">>}

\* what the EndpointSlice of key k may hold: its labels and its endpoints
Bodies(k) ==
    CASE k = <<"ns1", "a">> -> {BodyA1, BodyNoSvc, BodyEmpty, BodyANoT, BodyBlank,
                              BodyA1Down}
      [] k = <<"ns1", "b">> -> {BodyA2, BodyANoT}
      [] OTHER -> {}

\* a key without object
Absent == [Labels |-> NoLabels, Endpoints |-> <<>>, absent |-> TRUE]

Slice(k, body) ==
    [Namespace |-> k[1], Name |-> k[2],
     Labels |-> body.Labels, Endpoints |-> body.Endpoints]

\* the selectors an operator may configure
Selectors == {<<>>, <<"t", "=", "w">>}

\* rows found in the table when the process starts
PriorRow(c, ns, svc, uid, name, ip) ==
    [cluster |-> c, namespace |-> ns, service |-> svc, pod_uid |-> uid,
     pod_name |-> name, pod_ip |-> ip, ready |-> TRUE,
     first_seen |-> 0, last_seen |-> 0]

PriorTables == {
    {},
    { PriorRow("c1", "ns1", "svcA", "gone", "pg", "10.0.0.4"),
      PriorRow("c1", "ns1", "svcA", "u1",   "p0", "10.0.0.7"),
      PriorRow("c2", "ns1", "svcA", "u1",   "p1", "10.0.0.1"),
      PriorRow("c1", "ns2", "svcA", "u1",   "p1", "10.0.0.1"),
      PriorRow("c1", "ns1", "svcB", "u1",   "p1", "10.0.0.1") } }

\* ------------------------------------------------------------------ Init
Init ==
    /\ LabelSelector \in Selectors
    /\ slices \in {f \in [SliceKeys -> UNION {Bodies(k) : k \in SliceKeys} \cup {Absent}] :
                      \A k \in SliceKeys : f[k] \in Bodies(k) \cup {Absent}}
    /\ services \in SUBSET LiveServices
    /\ table \in PriorTables
    /\ clock = 0
    /\ esPc = "idle"
    /\ req = <<>>
    /\ es = <<>>
    /\ list = <<>>
    /\ desired = NoRows
    /\ tx = NoTx
    /\ esResult = NoResult
    /\ esLog = NoLog
    /\ svcPc = "idle"
    /\ svcResult = NoResult
    /\ svcLog = NoLog
    /\ svcStmts = 0
    /\ svcQueue = services
    /\ Started

\* --------------------------------------------- EndpointSliceReconciler
\* return from Reconcile: the locals are gone, the deferred Rollback has run;
\* the delivery layer still holds the request
Return(result) ==
    /\ esResult' = result
    /\ esPc' = "returned"
    /\ es' = <<>>
    /\ list' = <<>>
    /\ desired' = NoRows
    /\ tx' = NoTx

RECURSIVE Orders(_)
\* the orders in which a List call may return the objects of S
Orders(S) ==
    IF S = {} THEN {<<>>}
    ELSE UNION {{<<x>> \o o : o \in Orders(S \ {x})} : x \in S}

\* the invocations of the EndpointSlice Reconcile that have not ended
EsInFlight == IF esPc = "idle" THEN 0 ELSE 1

\* mutant: a not-found fetch is returned as an error
ReconcileGet_notFoundIsError(k, out) ==
    /\ EsInFlight < MaxConcurrentReconciles
    /\ req' = k
    /\ UNCHANGED <<config, clusterVars, table, clock, svcVars, esLog>>
    /\ IF out = "err" \/ slices[k] = Absent
       THEN Return(Result(RequeueAfter, "get"))
       ELSE LET obj == Slice(k, slices[k])
            IN  IF LabelSelector # <<>> /\ ~matchKV(obj.Labels, LabelSelector)
                THEN Return(Result(RequeueAfter, ""))
                ELSE IF MapGet(obj.Labels, LabelServiceName) = ""
                THEN Return(Result(RequeueAfter, ""))
                ELSE /\ esPc' = "list"
                     /\ es' = <<[Namespace |-> obj.Namespace, Labels |-> obj.Labels]>>
                     /\ UNCHANGED <<list, desired, tx, esResult>>

\* mutant: the selector is checked on the listed objects alone
ReconcileGet_noSelectorExit(k, out) ==
    /\ EsInFlight < MaxConcurrentReconciles
    /\ req' = k
    /\ UNCHANGED <<config, clusterVars, table, clock, svcVars, esLog>>
    /\ IF out = "err"
       THEN Return(Result(RequeueAfter, "get"))
       ELSE IF slices[k] = Absent
       THEN Return(Result(RequeueAfter, ""))
       ELSE LET obj == Slice(k, slices[k])
            IN  IF MapGet(obj.Labels, LabelServiceName) = ""
                THEN Return(Result(RequeueAfter, ""))
                ELSE /\ esPc' = "list"
                     /\ es' = <<[Namespace |-> obj.Namespace, Labels |-> obj.Labels]>>
                     /\ UNCHANGED <<list, desired, tx, esResult>>

\* mutant: the worker pool does not limit the invocations in flight
ReconcileGet_unlimited(k, out) ==
    /\ req' = k
    /\ UNCHANGED <<config, clusterVars, table, clock, svcVars, esLog>>
    /\ IF out = "err"
       THEN Return(Result(RequeueAfter, "get"))
       ELSE IF slices[k] = Absent
       THEN Return(Result(RequeueAfter, ""))
       ELSE LET obj == Slice(k, slices[k])
            IN  IF LabelSelector # <<>> /\ ~matchKV(obj.Labels, LabelSelector)
                THEN Return(Result(RequeueAfter, ""))
                ELSE IF MapGet(obj.Labels, LabelServiceName) = ""
                THEN Return(Result(RequeueAfter, ""))
                ELSE /\ esPc' = "list"
                     /\ es' = <<[Namespace |-> obj.Namespace, Labels |-> obj.Labels]>>
                     /\ UNCHANGED <<list, desired, tx, esResult>>

\* r.Get and the early exits of Reconcile; the worker pool starts an
\* invocation while fewer than MaxConcurrentReconciles are in flight
ReconcileGet(k, out) ==
    /\ EsInFlight < MaxConcurrentReconciles
    /\ req' = k
    /\ UNCHANGED <<config, clusterVars, table, clock, svcVars, esLog>>
    /\ IF out = "err"
       THEN Return(Result(RequeueAfter, "get"))
       ELSE IF slices[k] = Absent
       THEN Return(Result(RequeueAfter, ""))
       ELSE LET obj == Slice(k, slices[k])
            IN  IF LabelSelector # <<>> /\ ~matchKV(obj.Labels, LabelSelector)
                THEN Return(Result(RequeueAfter, ""))
                ELSE IF MapGet(obj.Labels, LabelServiceName) = ""
                THEN Return(Result(RequeueAfter, ""))
                ELSE /\ esPc' = "list"
                     /\ es' = <<[Namespace |-> obj.Namespace, Labels |-> obj.Labels]>>
                     /\ UNCHANGED <<list, desired, tx, esResult>>

service == MapGet(es[1].Labels, LabelServiceName)

\* mutant: the triggering object alone
Listed_triggerOnly(namespace, svc) ==
    {Slice(k, slices[k]) : k \in {j \in SliceKeys :
        /\ slices[j] # Absent
        /\ j = req
        /\ LabelServiceName \in DOMAIN slices[j].Labels
        /\ slices[j].Labels[LabelServiceName] = svc}}

\* the objects r.List selects: InNamespace and MatchingLabels
Listed(namespace, svc) ==
    {Slice(k, slices[k]) : k \in {j \in SliceKeys :
        /\ slices[j] # Absent
        /\ j[1] = namespace
        /\ LabelServiceName \in DOMAIN slices[j].Labels
        /\ slices[j].Labels[LabelServiceName] = svc}}

\* r.List and buildDesiredRows
ReconcileList(out) ==
    /\ esPc = "list"
    /\ UNCHANGED <<config, clusterVars, table, clock, svcVars, esLog>>
    /\ IF out = "err"
       THEN Return(Result(0, "list")) /\ UNCHANGED req
       ELSE \E items \in Orders(Listed(es[1].Namespace, service)) :
               /\ list' = items
               /\ desired' = buildDesiredRows(items, service)
               /\ esPc' = "begin"
               /\ UNCHANGED <<req, es, tx, esResult>>

\* the store's time when the next transaction starts; the timestamps from
\* MaxClock on are not told apart
Tick == IF clock < MaxClock THEN clock + 1 ELSE MaxClock

\* r.DB.Begin in syncToDatabase
syncToDatabase(out) ==
    /\ esPc = "begin"
    /\ UNCHANGED <<config, clusterVars, table, svcVars, esLog>>
    /\ IF out = "err"
       THEN Return(Result(0, "begin")) /\ UNCHANGED <<req, clock>>
       ELSE /\ clock' = Tick
            /\ tx' = [open |-> TRUE, now |-> Tick, stmts |-> <<>>]
            /\ esPc' = "upsert"
            /\ UNCHANGED <<req, es, list, desired, esResult>>

\* the identities of desired whose upsert has been executed
Upserted == {tx.stmts[i].args[4] : i \in {j \in 1..Len(tx.stmts) : tx.stmts[j].sql = "upsert"}}

\* tx.Exec of a statement: buffered in the transaction
TxExec(stmt) == tx' = [tx EXCEPT !.stmts = Append(@, stmt)]

\* mutant: the statement is executed on the pool, outside the transaction
upsertRows_onPool(uid, out) ==
    /\ esPc = "upsert"
    /\ uid \in DOMAIN desired \ Upserted
    /\ UNCHANGED <<config, clusterVars, clock, svcVars, esLog>>
    /\ IF out = "err"
       THEN Return(Result(0, "upsert")) /\ UNCHANGED <<req, table>>
       ELSE LET stmt == [sql |-> "upsert", tbl |-> sanitizeTableIdent(TableName),
                         args |-> <<ClusterName, es[1].Namespace, service,
                                    desired[uid].UID, desired[uid].Name, desired[uid].IP>>]
            IN  /\ TxExec(stmt)
                /\ table' = Exec(table, stmt, tx.now)
                /\ UNCHANGED <<esPc, req, es, list, desired, esResult>>

\* one iteration of the loop of upsertRows (Go ranges over a map in any order)
upsertRows(uid, out) ==
    /\ esPc = "upsert"
    /\ uid \in DOMAIN desired \ Upserted
    /\ UNCHANGED <<config, clusterVars, clock, svcVars, esLog>>
    /\ IF out = "err"
       THEN Return(Result(0, "upsert")) /\ UNCHANGED <<req, table>>
       ELSE /\ TxExec([sql |-> "upsert", tbl |-> sanitizeTableIdent(TableName),
                       args |-> <<ClusterName, es[1].Namespace, service,
                                  desired[uid].UID, desired[uid].Name, desired[uid].IP>>])
            /\ UNCHANGED <<table, esPc, req, es, list, desired, esResult>>

\* mutant: no prune is executed for an empty list of uids
pruneRows_skipsEmpty(out) ==
    /\ esPc = "upsert"
    /\ DOMAIN desired \ Upserted = {}
    /\ UNCHANGED <<config, clusterVars, clock, svcVars, esLog>>
    /\ IF out = "err"
       THEN Return(Result(0, "prune")) /\ UNCHANGED <<req, table>>
       ELSE /\ IF DOMAIN desired = {}
               THEN UNCHANGED tx
               ELSE TxExec([sql |-> "prune", tbl |-> sanitizeTableIdent(TableName),
                            args |-> <<ClusterName, es[1].Namespace, service,
                                       DOMAIN desired>>])
            /\ esPc' = "commit"
            /\ UNCHANGED <<table, req, es, list, desired, esResult>>

\* mutant: the prune does not wait for the upserts
pruneRows_early(out) ==
    /\ esPc = "upsert"
    /\ UNCHANGED <<config, clusterVars, clock, svcVars, esLog>>
    /\ IF out = "err"
       THEN Return(Result(0, "prune")) /\ UNCHANGED <<req, table>>
       ELSE /\ TxExec([sql |-> "prune", tbl |-> sanitizeTableIdent(TableName),
                       args |-> <<ClusterName, es[1].Namespace, service, DOMAIN desired>>])
            /\ esPc' = "commit"
            /\ UNCHANGED <<table, req, es, list, desired, esResult>>

\* the collection of uids and pruneRows
pruneRows(out) ==
    /\ esPc = "upsert"
    /\ DOMAIN desired \ Upserted = {}
    /\ UNCHANGED <<config, clusterVars, clock, svcVars, esLog>>
    /\ IF out = "err"
       THEN Return(Result(0, "prune")) /\ UNCHANGED <<req, table>>
       ELSE /\ TxExec([sql |-> "prune", tbl |-> sanitizeTableIdent(TableName),
                       args |-> <<ClusterName, es[1].Namespace, service, DOMAIN desired>>])
            /\ esPc' = "commit"
            /\ UNCHANGED <<table, req, es, list, desired, esResult>>

\* mutant: the error of tx.Commit is dropped
Commit_dropsError(out) ==
    /\ esPc = "commit"
    /\ UNCHANGED <<config, clusterVars, clock, svcVars, req>>
    /\ IF out = "err"
       THEN Return(Result(RequeueAfter, "")) /\ UNCHANGED <<table, esLog>>
       ELSE /\ table' = ExecAll(table, tx.stmts, tx.now)
            /\ esLog' = [msg |-> "synced endpoints", namespace |-> es[1].Namespace,
                         service |-> service, count |-> Cardinality(DOMAIN desired)]
            /\ Return(Result(RequeueAfter, ""))

\* mutant: a successful convergence asks for no re-delivery
Commit_noRequeue(out) ==
    /\ esPc = "commit"
    /\ UNCHANGED <<config, clusterVars, clock, svcVars, req>>
    /\ IF out = "err"
       THEN Return(Result(0, "commit")) /\ UNCHANGED <<table, esLog>>
       ELSE /\ table' = ExecAll(table, tx.stmts, tx.now)
            /\ esLog' = [msg |-> "synced endpoints", namespace |-> es[1].Namespace,
                         service |-> service, count |-> Cardinality(DOMAIN desired)]
            /\ Return(Result(0, ""))

\* tx.Commit and the return of Reconcile
Commit(out) ==
    /\ esPc = "commit"
    /\ UNCHANGED <<config, clusterVars, clock, svcVars>>
    /\ IF out = "err"
       THEN Return(Result(0, "commit")) /\ UNCHANGED <<req, table, esLog>>
       ELSE /\ table' = ExecAll(table, tx.stmts, tx.now)
            /\ esLog' = [msg |-> "synced endpoints", namespace |-> es[1].Namespace,
                         service |-> service, count |-> Cardinality(DOMAIN desired)]
            /\ Return(Result(RequeueAfter, ""))
            /\ UNCHANGED req

\* the invocation's context is cancelled while the transaction is open: the
\* pgx call under way or the next one returns the context's error,
\* syncToDatabase returns it and the deferred Rollback ends the transaction
\* mutant: the deferred call commits what was executed
Canceled_commits ==
    /\ esPc \in {"upsert", "commit"}
    /\ tx.open
    /\ UNCHANGED <<config, clusterVars, clock, svcVars, esLog, req>>
    /\ table' = ExecAll(table, tx.stmts, tx.now)
    /\ Return(Result(0, "canceled"))

Canceled ==
    /\ esPc \in {"upsert", "commit"}
    /\ tx.open
    /\ UNCHANGED <<config, clusterVars, table, clock, svcVars, esLog, req>>
    /\ Return(Result(0, "canceled"))

\* --------------------------------------------------- ServiceReconciler
\* the invocations of the Service Reconcile that have not ended
SvcInFlight == IF svcPc = "idle" THEN 0 ELSE 1

\* mutant: the rows are deleted whether or not the Service exists
ServiceReconcile_alwaysDelete(k, out) ==
    /\ svcPc = "idle"
    /\ k \in svcQueue
    /\ svcPc' = "returned"
    /\ UNCHANGED <<config, clusterVars, clock, esPc, esLocals, tx, esResult, esLog, svcDel>>
    /\ IF out = "geterr"
       THEN /\ svcResult' = Result(0, "get")
            /\ svcStmts' = 0 /\ svcTbl' = <<>>
            /\ UNCHANGED <<table, svcLog, svcQueue>>
       ELSE /\ table' = DeleteStmt(table, <<ClusterName, k[1], k[2]>>)
            /\ svcQueue' = svcQueue \ {k}
            /\ svcStmts' = 1 /\ svcTbl' = sanitizeTableIdent(TableName)
            /\ svcLog' = [msg |-> "pruned rows for deleted service",
                          namespace |-> k[1], service |-> k[2], count |-> 0]
            /\ svcResult' = Result(0, "")

\* mutant: every error of the fetch is taken as not found
ServiceReconcile_anyErrorDeletes(k, out) ==
    /\ svcPc = "idle"
    /\ k \in svcQueue
    /\ svcPc' = "returned"
    /\ UNCHANGED <<config, clusterVars, clock, esPc, esLocals, tx, esResult, esLog, svcDel>>
    /\ IF out = "geterr" \/ k \notin services
       THEN /\ svcStmts' = 1 /\ svcTbl' = sanitizeTableIdent(TableName)
            /\ table' = DeleteStmt(table, <<ClusterName, k[1], k[2]>>)
            /\ svcLog' = [msg |-> "pruned rows for deleted service",
                          namespace |-> k[1], service |-> k[2], count |-> 0]
            /\ svcResult' = Result(0, "")
            /\ svcQueue' = svcQueue \ {k}
       ELSE /\ svcResult' = Result(0, "")
            /\ svcStmts' = 0 /\ svcTbl' = <<>>
            /\ svcQueue' = svcQueue \ {k}
            /\ UNCHANGED <<table, svcLog>>

\* The worker takes a key whose event is waiting. A returned error puts the
\* key back; ctrl.Result{} with no error asks for no further delivery.
ServiceReconcile(k, out) ==
    /\ SvcInFlight < MaxConcurrentReconciles
    /\ k \in svcQueue
    /\ svcPc' = "returned"
    /\ UNCHANGED <<config, clusterVars, clock, esPc, esLocals, tx, esResult, esLog, svcDel>>
    /\ IF out = "geterr"
       THEN /\ svcResult' = Result(0, "get")
            /\ svcStmts' = 0 /\ svcTbl' = <<>>
            /\ UNCHANGED <<table, svcLog, svcQueue>>
       ELSE IF k \notin services
       THEN /\ svcStmts' = 1 /\ svcTbl' = sanitizeTableIdent(TableName)
            /\ IF out = "err"
               THEN /\ svcResult' = Result(0, "exec")
                    /\ UNCHANGED <<table, svcLog, svcQueue>>
               ELSE /\ table' = DeleteStmt(table, <<ClusterName, k[1], k[2]>>)
                    /\ svcLog' = [msg |-> "pruned rows for deleted service",
                                  namespace |-> k[1], service |-> k[2], count |-> 0]
                    /\ svcResult' = Result(0, "")
                    /\ svcQueue' = svcQueue \ {k}
       ELSE /\ svcResult' = Result(0, "")
            /\ svcStmts' = 0 /\ svcTbl' = <<>>
            /\ svcQueue' = svcQueue \ {k}
            /\ UNCHANGED <<table, svcLog>>

\* ------------------------------------------------- the delivery layer
\* MaxConcurrentReconciles: 1: the worker takes the next key only once
\* Reconcile has returned and its result has been taken.
TakeEndpointSliceResult ==
    /\ esPc = "returned"
    /\ esPc' = "idle"
    /\ esResult' = NoResult
    /\ esLog' = NoLog
    /\ req' = <<>>
    /\ UNCHANGED <<config, clusterVars, table, clock, es, list, desired, tx, svcVars>>

TakeServiceResult ==
    /\ svcPc = "returned"
    /\ svcPc' = "idle"
    /\ svcResult' = NoResult
    /\ svcLog' = NoLog
    /\ svcStmts' = 0
    /\ svcTbl' = <<>>
    /\ UNCHANGED <<config, clusterVars, table, clock, esPc, esLocals, tx,
                   esResult, esLog, svcQueue, svcDel>>

\* ------------------------------------------------------- the cluster
esUnchanged == UNCHANGED <<config, table, clock, esPc, esLocals, tx,
                           esResult, esLog, svcLocals>>

\* EndpointSlices are read by Get and List alone, and neither reconciler
\* writes them: a change made while the worker is between Begin and the
\* taking of its result commutes with every step up to there, so it is
\* taken when the worker is idle again.
SliceChangeSeen == esPc \in {"idle", "list"}

\* an EndpointSlice is created or updated
PutSlice(k, body) ==
    /\ SliceChangeSeen
    /\ slices[k] # body
    /\ slices' = [slices EXCEPT ![k] = body]
    /\ UNCHANGED <<services, svcQueue>>
    /\ esUnchanged

\* an EndpointSlice is deleted
DeleteSlice(k) ==
    /\ SliceChangeSeen
    /\ slices[k] # Absent
    /\ slices' = [slices EXCEPT ![k] = Absent]
    /\ UNCHANGED <<services, svcQueue>>
    /\ esUnchanged

\* a Service is created: its event is queued
CreateService(k) ==
    /\ k \notin services
    /\ services' = services \cup {k}
    /\ svcQueue' = svcQueue \cup {k}
    /\ UNCHANGED slices
    /\ esUnchanged

\* a Service is deleted: its event is queued
DeleteService(k) ==
    /\ k \in services
    /\ services' = services \ {k}
    /\ svcQueue' = svcQueue \cup {k}
    /\ UNCHANGED slices
    /\ esUnchanged

Next ==
    \/ \E k \in SliceKeys, out \in Outcomes : clock < MaxClock /\ ReconcileGet(k, out)
    \/ \E out \in Outcomes : ReconcileList(out)
    \/ \E out \in Outcomes : syncToDatabase(out)
    \/ \E uid \in DOMAIN desired, out \in Outcomes : upsertRows(uid, out)
    \/ \E out \in Outcomes : pruneRows(out)
    \/ \E out \in Outcomes : Commit(out)
    \/ Canceled
    \/ \E k \in ServiceKeys, out \in Outcomes \cup {"geterr"} : ServiceReconcile(k, out)
    \/ TakeEndpointSliceResult
    \/ TakeServiceResult
    \/ \E k \in LiveSlices : \E body \in Bodies(k) : PutSlice(k, body)
    \/ \E k \in LiveSlices : DeleteSlice(k)
    \/ \E k \in LiveServices : CreateService(k)
    \/ \E k \in LiveServices : DeleteService(k)

Spec == Init /\ [][Next]_vars

\* ------------------------------------------------------------------
\* SpecLive and SpecMain: what the process does in the long run once the API
\* and the store no longer fail. Objects are only deleted, so the cluster
\* stops changing; the table is empty and the Services exist when the
\* process starts.
InitLive ==
    /\ Init
    /\ table = {}
    /\ services = LiveServices

\* the steps of the EndpointSlice worker without failure
EsRuns ==
    \/ \E k \in SliceKeys : ReconcileGet(k, "ok")
    \/ ReconcileList("ok")
    \/ syncToDatabase("ok")
    \/ \E uid \in DOMAIN desired : upsertRows(uid, "ok")
    \/ pruneRows("ok")
    \/ Commit("ok")
    \/ TakeEndpointSliceResult

\* the steps of the Service worker without failure
SvcRuns ==
    \/ \E k \in ServiceKeys : ServiceReconcile(k, "ok")
    \/ TakeServiceResult

Deletions ==
    \/ \E k \in LiveSlices : DeleteSlice(k)
    \/ \E k \in LiveServices : DeleteService(k)

\* Every return of the EndpointSlice Reconcile asks for re-delivery
\* (RequeueAfter, or an error), and the work queue serves its keys in turn:
\* each key is taken again and again, and a started invocation runs on.
EsFair ==
    /\ \A k \in SliceKeys : SF_vars(ReconcileGet(k, "ok"))
    /\ WF_vars(ReconcileList("ok"))
    /\ WF_vars(syncToDatabase("ok"))
    /\ WF_vars(\E uid \in DOMAIN desired : upsertRows(uid, "ok"))
    /\ WF_vars(pruneRows("ok"))
    /\ WF_vars(Commit("ok"))
    /\ WF_vars(TakeEndpointSliceResult)

\* A queued Service key is taken by the Service worker.
SvcFair ==
    /\ WF_vars(\E k \in ServiceKeys : ServiceReconcile(k, "ok"))
    /\ WF_vars(TakeServiceResult)

\* both reconcilers set up with the manager
NextLive == EsRuns \/ SvcRuns \/ Deletions

SpecLive == InitLive /\ [][NextLive]_vars /\ EsFair /\ SvcFair

\* the process as main sets it up: the EndpointSliceReconciler alone
NextMain == EsRuns \/ Deletions

SpecMain == InitLive /\ [][NextMain]_vars /\ EsFair

\* ------------------------------------------------------------------
\* SpecBuild: the read phase of the EndpointSlice Reconcile (Get, List,
\* buildDesiredRows) over a wide range of EndpointSlice contents.
Refs == { <<>>, Pod("u1", "p1"), Pod("", "p0"),
          <<[Kind |-> "Node", UID |-> "n5", Name |-> "node5"]>>,
          <<[Kind |-> "Service", UID |-> "", Name |-> "s"]>> }

\* every shape of endpoint
AllEndpoints ==
    [Addresses : {<<>>, <<"10.0.0.1">>, <<"10.0.0.2", "10.0.0.1">>},
     Ready     : {<<>>, <<TRUE>>, <<FALSE>>},
     TargetRef : Refs]

\* endpoints that collide, differ, or are not admitted
SomeEndpoints ==
    { EpPod1, EpPod1Move, EpBare, EpNotReady, EpNoAddr,
      [Addresses |-> <<"10.0.0.2">>, Ready |-> <<TRUE>>,
       TargetRef |-> <<[Kind |-> "Node", UID |-> "n5", Name |-> "node5"]>>],
      [Addresses |-> <<"10.0.0.2", "10.0.0.1">>, Ready |-> <<TRUE>>,
       TargetRef |-> Pod("", "p0")],
      [Addresses |-> <<"10.0.0.6">>, Ready |-> <<TRUE>>, TargetRef |-> Pod("u2", "p2")] }

RECURSIVE SeqsOf(_, _)
\* the sequences of exactly n elements of S
SeqsOf(S, n) ==
    IF n = 0 THEN {<<>>}
    ELSE {<<x>> \o t : x \in S, t \in SeqsOf(S, n - 1)}

LabelChoices == {SvcLabel("svcA") @@ Tier, SvcLabel("svcA"), SvcLabel("svcB") @@ Tier}

NoSlices == [k \in SliceKeys |-> Absent]

\* one EndpointSlice holding one endpoint of any shape, in either namespace
OneEndpointClusters ==
    { [NoSlices EXCEPT ![k] = [Labels |-> l, Endpoints |-> <<e>>]] :
        k \in {<<"ns1", "a">>, <<"ns2", "a">>}, l \in LabelChoices, e \in AllEndpoints }

\* two EndpointSlices of one namespace sharing at most max endpoints
TwoSliceClusters(max) ==
    UNION { UNION { { [NoSlices EXCEPT ![<<"ns1", "a">>] = [Labels |-> la, Endpoints |-> ea],
                                         ![<<"ns1", "b">>] = [Labels |-> lb, Endpoints |-> eb]] :
                        ea \in SeqsOf(SomeEndpoints, na), eb \in SeqsOf(SomeEndpoints, n - na),
                        la \in LabelChoices, lb \in LabelChoices }
                    : na \in 0..n }
            : n \in 0..max }

BuildSelectors == Selectors \cup { <<" ", "t", "=", "w", " ", ",", ",">> }

InitBuild ==
    /\ LabelSelector \in BuildSelectors
    /\ slices \in OneEndpointClusters \cup TwoSliceClusters(MaxEndpoints)
    /\ services = {}
    /\ table = {}
    /\ clock = 0
    /\ esPc = "idle"
    /\ req = <<>>
    /\ es = <<>>
    /\ list = <<>>
    /\ desired = NoRows
    /\ tx = NoTx
    /\ esResult = NoResult
    /\ esLog = NoLog
    /\ svcPc = "idle"
    /\ svcResult = NoResult
    /\ svcLog = NoLog
    /\ svcStmts = 0
    /\ svcQueue = {}
    /\ Started

NextBuild ==
    \/ \E k \in SliceKeys, out \in Outcomes : ReconcileGet(k, out)
    \/ \E out \in Outcomes : ReconcileList(out)
    \/ TakeEndpointSliceResult

SpecBuild == InitBuild /\ [][NextBuild]_vars

\* ------------------------------------------------------------------
\* SpecMatch: Get and its selector check over a wide range of selector
\* strings and label maps.
\* the clauses a selector is written with
MatchClauses ==
    { <<>>, <<" ">>,
      <<"t", "=", "w">>, <<" ", "t", "=", "w", "\t">>,
      <<"t", " ", "=", "w">>,
      <<"t">>, <<"t", "=">>, <<"a", "=", "b">>,
      <<"t", "=", "w", "=", "w">> }

RECURSIVE JoinClauses(_)
\* the selector string made of the clauses cs
JoinClauses(cs) ==
    IF Len(cs) = 1 THEN cs[1]
    ELSE cs[1] \o <<",">> \o JoinClauses(Tail(cs))

\* the selector strings of at most n clauses
MatchSelectors(n) ==
    UNION { {JoinClauses(cs) : cs \in SeqsOf(MatchClauses, i)} : i \in 1..n }

\* label maps; the first is the nil or empty map
BaseLabels ==
    { NoLabels, ("t" :> "w"), ("t" :> "w") @@ ("a" :> "b"), ("t" :> "w=w"),
      ("t" :> ""), ("T" :> "w"), ("a" :> "b"), ("t " :> "w") }

\* the same, on an EndpointSlice that names its service
MatchLabels ==
    BaseLabels \cup
    {SvcLabel("svcA") @@ l :
        l \in {NoLabels, ("t" :> "w"), ("t" :> "w") @@ ("a" :> "b"), ("t" :> "w=w")}}

MatchKey == <<"ns1", "a">>

InitMatch ==
    /\ LabelSelector \in MatchSelectors(MaxClauses)
    /\ slices \in { [NoSlices EXCEPT ![MatchKey] = [Labels |-> l, Endpoints |-> <<EpPod1>>]] :
                      l \in MatchLabels }
    /\ services = {}
    /\ table = {}
    /\ clock = 0
    /\ esPc = "idle"
    /\ req = <<>>
    /\ es = <<>>
    /\ list = <<>>
    /\ desired = NoRows
    /\ tx = NoTx
    /\ esResult = NoResult
    /\ esLog = NoLog
    /\ svcPc = "idle"
    /\ svcResult = NoResult
    /\ svcLog = NoLog
    /\ svcStmts = 0
    /\ svcQueue = {}
    /\ Started

NextMatch ==
    \/ \E out \in Outcomes : ReconcileGet(MatchKey, out)
    \/ \E out \in Outcomes : ReconcileList(out)
    \/ TakeEndpointSliceResult

SpecMatch == InitMatch /\ [][NextMatch]_vars

\* ------------------------------------------------------------------
\* SpecPool and SpecTable: the process from the start of main, over the
\* environments and table names it may be given; one EndpointSlice in the
\* cluster, and the event of a deleted Service waiting.
\* Highest number of dot-separated segments of a table name in SpecTable.
MaxSegments == 2

InitStart ==
    /\ mainPc = "flags"
    /\ TableName = <<>>
    /\ pool = NoPool
    /\ LabelSelector = <<>>
    /\ slices = [NoSlices EXCEPT ![<<"ns1", "a">>] = BodyA1]
    /\ services = {}
    /\ svcQueue = {<<"ns1", "svcA">>}
    /\ table = {}
    /\ clock = 0
    /\ esPc = "idle"
    /\ req = <<>>
    /\ es = <<>>
    /\ list = <<>>
    /\ desired = NoRows
    /\ tx = NoTx
    /\ esResult = NoResult
    /\ esLog = NoLog
    /\ svcPc = "idle"
    /\ svcResult = NoResult
    /\ svcLog = NoLog
    /\ svcStmts = 0
    /\ svcTbl = <<>>
    /\ svcDel = NoDel
    /\ impl = "refactored"

\* a variable is not set, set to the empty string, or set to a value
EnvChoices(k) ==
    CASE k = "PGPORT"    -> {<<"6", "4", "3", "2">>}
      [] k = "PGSSLMODE" -> {<<"d", "i", "s", "a", "b", "l", "e">>}
      [] OTHER           -> {<<"x">>}

PGVars == RequiredPG \cup {"PGPORT", "PGSSLMODE"}

PoolEnvs ==
    UNION { [S -> {<<>>, <<"x">>}] : S \in SUBSET PGVars }

\* the value of k in e is the choice of k where e has "x"
EnvOf(e) == [k \in DOMAIN e |-> IF e[k] = <<>> THEN <<>> ELSE CHOOSE v \in EnvChoices(k) : TRUE]

InitPool ==
    /\ InitStart
    /\ env \in {EnvOf(e) : e \in PoolEnvs}
    /\ args = <<>>

\* the segments a table name is written with (an environment variable and a
\* command-line argument hold no byte 0)
NameSegments ==
    { <<>>, <<"s">>, <<"1", "A">>, <<"-", " ">>, <<"s", "e", "l", "e", "c", "t">>,
      <<Quote>>, <<"a", Quote, "b">> }

RECURSIVE JoinSegments(_)
JoinSegments(ss) ==
    IF Len(ss) = 1 THEN ss[1]
    ELSE ss[1] \o <<".">> \o JoinSegments(Tail(ss))

\* the table names of at most n segments
TableNames(n) ==
    UNION { {JoinSegments(ss) : ss \in SeqsOf(NameSegments, i)} : i \in 1..n }

InitTable ==
    /\ InitStart
    /\ env \in {RunEnv} \cup {RunEnv @@ ("TABLE_NAME" :> n) : n \in TableNames(MaxSegments)}
    /\ args \in {<<>>, << <<>> >>, << <<"f", ".", "t">> >>}

NextStart ==
    \/ mainFlags
    \/ \E out \in Outcomes \cup {"parse"} : newPoolFromEnv(out)
    \/ \E k \in SliceKeys : mainPc = "running" /\ clock < MaxClock /\ ReconcileGet(k, "ok")
    \/ mainPc = "running" /\ ReconcileList("ok")
    \/ mainPc = "running" /\ syncToDatabase("ok")
    \/ \E uid \in DOMAIN desired : mainPc = "running" /\ upsertRows(uid, "ok")
    \/ \E out \in Outcomes : mainPc = "running" /\ pruneRows(out)
    \/ mainPc = "running" /\ Commit("ok")
    \/ mainPc = "running" /\ TakeEndpointSliceResult
    \/ \E k \in ServiceKeys, out \in Outcomes : mainPc = "running" /\ ServiceReconcile(k, out)
    \/ mainPc = "running" /\ TakeServiceResult

SpecPool == InitPool /\ [][NextStart]_vars

SpecTable == InitTable /\ [][NextStart]_vars

\* ------------------------------------------------------------------
\* What the claims speak of, stated without the code's operators.
Range(q) == {q[i] : i \in 1..Len(q)}

\* an endpoint with at least one address whose readiness flag is true or unset
Admitted(ep) == Len(ep.Addresses) >= 1 /\ ep.Ready \in {<<>>, <<TRUE>>}

Composite(ep, namespace, svc) == namespace \o "/" \o svc \o "/" \o ep.Addresses[1]

Identity(ep, namespace, svc) ==
    IF ep.TargetRef = <<>> THEN Composite(ep, namespace, svc)
    ELSE IF ep.TargetRef[1].Kind # "Pod" THEN Composite(ep, namespace, svc)
    ELSE IF ep.TargetRef[1].UID = "" THEN Composite(ep, namespace, svc)
    ELSE ep.TargetRef[1].UID

DisplayName(ep) ==
    IF ep.TargetRef # <<>> /\ ep.TargetRef[1].Kind = "Pod"
    THEN ep.TargetRef[1].Name ELSE ""

\* the clauses each configured selector stands for
Clauses(sel) == IF sel = <<>> THEN {} ELSE {<<"t", "w">>}

Satisfies(lbls, sel) ==
    \A c \in Clauses(sel) : c[1] \in DOMAIN lbls /\ lbls[c[1]] = c[2]

\* the positions <<i, j>> of the admitted endpoints of the selector-matching
\* objects of items
AdmittedAt(items) ==
    {p \in UNION {{<<i, j>> : j \in 1..Len(items[i].Endpoints)} : i \in 1..Len(items)} :
        /\ Satisfies(items[p[1]].Labels, LabelSelector)
        /\ Admitted(items[p[1]].Endpoints[p[2]])}

EpAt(items, p) == items[p[1]].Endpoints[p[2]]

IdAt(items, p, svc) == Identity(EpAt(items, p), items[p[1]].Namespace, svc)

DesiredIds(items, svc) == {IdAt(items, p, svc) : p \in AdmittedAt(items)}

\* p comes before q in the iteration over items and their endpoints
Before(p, q) == p[1] < q[1] \/ (p[1] = q[1] /\ p[2] < q[2])

PartitionOf(T, c, namespace, svc) ==
    {r \in T : r.cluster = c /\ r.namespace = namespace /\ r.service = svc}

Uids(R) == {r.pod_uid : r \in R}

\* the partition the EndpointSlice worker is converging
Mine(T) == PartitionOf(T, ClusterName, es[1].Namespace, service)

\* the steps of the EndpointSlice worker
ListStep   == esPc = "list" /\ esPc' = "begin"
CommitStep == esPc = "commit" /\ esPc' = "returned" /\ esResult'.err = ""
WorkerStep == esPc' # esPc \/ tx' # tx

\* ------------------------------------------------------------------
\* C1 (exact-set invariant): the step in which a Membership convergence
\* commits leaves in the partition (configured cluster, the fetched object's
\* namespace, its service-name label) exactly the identities of the ready,
\* addressed endpoints of the selector-matching objects that were listed:
\* none is missing and no other row survives.
C1_ExactSet ==
    [][CommitStep => Uids(Mine(table')) = DesiredIds(list, service)]_vars

\* a convergence of two identities has committed on a table that held a
\* stale row of the partition and rows of other partitions
C1_Witness ==
    /\ esPc = "returned"
    /\ esLog.msg = "synced endpoints"
    /\ esLog.count = 2
    /\ Uids(PartitionOf(table, "c1", "ns1", "svcA")) = {"u1", "ns1/svcA/10.0.0.2"}
    /\ PartitionOf(table, "c2", "ns1", "svcA") # {}

\* C2 (no partial partition state): a step of the Membership worker either
\* leaves the committed table as it is (so after a failed upsert, prune or
\* commit the table is what it was), or is the commit, after which the
\* partition holds exactly the desired rows with their addresses; no step
\* shows some of the upserts, or the upserts without the prune.
C2_NoPartialState ==
    [][WorkerStep =>
         \/ table' = table
         \/ /\ CommitStep
            /\ Uids(Mine(table')) = DOMAIN desired
            /\ \A r \in Mine(table') : r.pod_ip = desired[r.pod_uid].IP /\ r.ready
            /\ Cardinality(Mine(table')) = Cardinality(DOMAIN desired)]_vars

\* the prune of a transaction that had upserted two rows failed, and the
\* table is the one the process found: the stale row is there, u1 is unchanged
C2_Witness ==
    /\ esPc = "returned"
    /\ esResult.err = "prune"
    /\ slices[<<"ns1", "a">>] = BodyA1
    /\ PartitionOf(table, "c1", "ns1", "svcA") =
         { PriorRow("c1", "ns1", "svcA", "gone", "pg", "10.0.0.4"),
           PriorRow("c1", "ns1", "svcA", "u1",   "p0", "10.0.0.7") }

\* the rows of a partition with last_seen left out
NoLastSeen(R) == {[r EXCEPT !.last_seen = 0] : r \in R}

\* the committed partition is what a convergence over the objects of list,
\* returned by List in the order o, leaves: its rows and their addresses
LeftByRunOn(o) ==
    LET d == buildDesiredRows(o, service)
    IN  /\ Uids(Mine(table)) = DOMAIN d
        /\ \A r \in Mine(table) : r.pod_ip = d[r.pod_uid].IP /\ r.ready

\* this commit ends a second run over the same objects on an untouched partition
SecondRun == CommitStep /\ \E o \in Orders(Range(list)) : LeftByRunOn(o)

\* an identity that two admitted endpoints with different first addresses derive
Contended(uid) ==
    \E p, q \in AdmittedAt(list) :
        /\ IdAt(list, p, service) = uid
        /\ IdAt(list, q, service) = uid
        /\ EpAt(list, p).Addresses[1] # EpAt(list, q).Addresses[1]

\* last_seen left out, and pod_ip too for a contended identity
NoLastSeenNorContendedIp(R) ==
    {IF Contended(r.pod_uid) THEN [r EXCEPT !.last_seen = 0, !.pod_ip = ""]
                             ELSE [r EXCEPT !.last_seen = 0] : r \in R}

\* C3 as claimed (convergence idempotence): a second run over unchanged
\* objects leaves the partition identical in every column except last_seen.
C3_AsClaimed ==
    [][SecondRun => NoLastSeen(Mine(table')) = NoLastSeen(Mine(table))]_vars

\* C3 as amended: a second run over unchanged objects leaves the partition
\* identical in row set, pod_name, ready and first_seen, and in pod_ip except
\* for an identity that two or more admitted endpoints with different first
\* addresses derive (List may return the objects in another order).
C3_Idempotent ==
    [][SecondRun => NoLastSeenNorContendedIp(Mine(table')) =
                    NoLastSeenNorContendedIp(Mine(table))]_vars

\* two runs on an empty table: both rows were created by the first and
\* refreshed by the second
C3_Witness ==
    /\ esPc = "returned"
    /\ esLog.msg = "synced endpoints"
    /\ Cardinality(table) = 2
    /\ \A r \in table : r.first_seen = 1 /\ r.last_seen = 2

\* C4 (full recompute across siblings): List returns every EndpointSlice of
\* the fetched object's namespace that carries its service-name label, and the
\* desired set is the union of the admitted endpoints of all of them that
\* match the selector, whichever of them triggered the run.
C4_AllSiblings ==
    [][ListStep =>
         LET siblings == {Slice(k, slices[k]) : k \in {j \in SliceKeys :
                            /\ slices[j] # Absent
                            /\ j[1] = es[1].Namespace
                            /\ MapGet(slices[j].Labels, LabelServiceName) = service}}
         IN  /\ Range(list') = siblings
             /\ Len(list') = Cardinality(siblings)
             /\ DOMAIN desired' =
                  UNION {DesiredIds(<<sl>>, service) : sl \in siblings}]_vars

\* the run triggered by slice b desires an identity that only slice a holds
C4_Witness ==
    /\ esPc = "begin"
    /\ req = <<"ns1", "b">>
    /\ "ns1/svcA/10.0.0.2" \in DOMAIN desired
    /\ slices[<<"ns1", "b">>] = BodyA2
    /\ "u1" \in DOMAIN desired

\* ------------------------------------------------------------------
\* the listed objects are one object holding one endpoint, and it matches
\* the selector
OneEndpointListed ==
    /\ esPc = "begin"
    /\ Len(list) = 1
    /\ Len(list[1].Endpoints) = 1
    /\ Satisfies(list[1].Labels, LabelSelector)

\* C5 (endpoint admission rule): an endpoint contributes a row to the desired
\* set if and only if it has at least one address and its readiness flag is
\* true or unset, whatever its backing reference; every desired row stems
\* from such an endpoint.
C5_Admission ==
    /\ OneEndpointListed => (DOMAIN desired # {} <=> Admitted(list[1].Endpoints[1]))
    /\ esPc = "begin" =>
         /\ \A p \in AdmittedAt(list) : IdAt(list, p, service) \in DOMAIN desired
         /\ \A u \in DOMAIN desired : \E p \in AdmittedAt(list) :
                desired[u].IP = EpAt(list, p).Addresses[1]

\* an endpoint without readiness flag is in the desired set
C5_Witness ==
    /\ OneEndpointListed
    /\ list[1].Endpoints[1].Ready = <<>>
    /\ list[1].Endpoints[1].TargetRef = <<>>
    /\ Cardinality(DOMAIN desired) = 1

\* C6 (desired-row derivation): the row of an admitted endpoint has as
\* identity the uid of its reference when that is a Pod with a non-empty uid,
\* and namespace/service/address otherwise (no reference, another kind, a Pod
\* with an empty uid); as address the endpoint's first address; as display
\* name the reference's name when it is a Pod, and the empty string otherwise.
C6_Derivation ==
    /\ (OneEndpointListed /\ Admitted(list[1].Endpoints[1])) =>
         LET ep == list[1].Endpoints[1]
             id == Identity(ep, list[1].Namespace, service)
         IN  /\ DOMAIN desired = {id}
             /\ desired[id] = [UID |-> id, Name |-> DisplayName(ep), IP |-> ep.Addresses[1]]
    /\ esPc = "begin" =>
         \A u \in DOMAIN desired : \E p \in AdmittedAt(list) :
            desired[u] = [UID  |-> IdAt(list, p, service),
                          Name |-> DisplayName(EpAt(list, p)),
                          IP   |-> EpAt(list, p).Addresses[1]]

\* a Pod reference with an empty uid and two addresses: composite identity,
\* the Pod's name, the first address
C6_Witness ==
    /\ OneEndpointListed
    /\ list[1].Endpoints[1].TargetRef = Pod("", "p0")
    /\ desired = ("ns2/svcB/10.0.0.2" :>
                    [UID |-> "ns2/svcB/10.0.0.2", Name |-> "p0", IP |-> "10.0.0.2"])

\* C7 (identity collision): when several admitted endpoints derive one
\* identity the desired set holds one row for it, with the display name and
\* the address of the one that comes last in the iteration over the listed
\* objects and their endpoints.
C7_LastWins ==
    esPc = "begin" =>
        \A p \in AdmittedAt(list) :
            (\A q \in AdmittedAt(list) :
                IdAt(list, q, service) = IdAt(list, p, service) => ~Before(p, q))
            => desired[IdAt(list, p, service)] =
                 [UID  |-> IdAt(list, p, service),
                  Name |-> DisplayName(EpAt(list, p)),
                  IP   |-> EpAt(list, p).Addresses[1]]

\* two objects hold u1 with different names and addresses: the row is the
\* one of the object listed second
C7_Witness ==
    /\ esPc = "begin"
    /\ Len(list) = 2
    /\ list[1].Endpoints = <<EpPod1Move>>
    /\ list[2].Endpoints = <<EpPod1>>
    /\ list[1].Name = "b"
    /\ desired = ("u1" :> [UID |-> "u1", Name |-> "p1", IP |-> "10.0.0.1"])

\* C8 (sibling selector filtering): with a selector configured, a listed
\* object whose labels do not satisfy it contributes no endpoint while the
\* endpoints of the matching ones are in the desired set; with an empty
\* selector every listed object contributes.
C8_SelectorFilter ==
    esPc = "begin" =>
        DOMAIN desired =
            UNION { {Identity(ep, sl.Namespace, service) :
                        ep \in {e \in Range(sl.Endpoints) : Admitted(e)}} :
                    sl \in {x \in Range(list) :
                              LabelSelector = <<>> \/ Satisfies(x.Labels, LabelSelector)} }

\* the sibling without the label t=w holds u2, which is not desired, while
\* u1 of the matching object is
C8_Witness ==
    /\ esPc = "begin"
    /\ LabelSelector # <<>>
    /\ Len(list) = 2
    /\ \E i \in 1..2 :
          /\ ~Satisfies(list[i].Labels, LabelSelector)
          /\ \E e \in Range(list[i].Endpoints) : Admitted(e) /\ e.TargetRef = Pod("u2", "p2")
    /\ DOMAIN desired = {"u1"}

\* ------------------------------------------------------------------
\* C9 (service removal cleanup): a Service Reconcile whose key is not found
\* and whose delete succeeds executes one statement, after which no row of
\* (configured cluster, key namespace, key name) is left, however many there
\* were, and every row of every other partition is as before.
C9_RemovalCleanup ==
    [][\A k \in ServiceKeys \ services :
          ServiceReconcile(k, "ok") =>
             /\ PartitionOf(table', ClusterName, k[1], k[2]) = {}
             /\ table' = table \ PartitionOf(table, ClusterName, k[1], k[2])
             /\ svcStmts' = 1
             /\ svcResult' = Result(0, "")]_vars

\* the two rows of (c1, ns1, svcA) are gone; the rows of the other cluster,
\* namespace and service are the ones the process found
C9_Witness ==
    /\ svcPc = "returned"
    /\ svcStmts = 1
    /\ svcResult = Result(0, "")
    /\ svcLog.service = "svcA"
    /\ table = { PriorRow("c2", "ns1", "svcA", "u1", "p1", "10.0.0.1"),
                 PriorRow("c1", "ns2", "svcA", "u1", "p1", "10.0.0.1"),
                 PriorRow("c1", "ns1", "svcB", "u1", "p1", "10.0.0.1") }

\* C10 (live service is a no-op): a Service Reconcile whose key is found
\* executes no statement, leaves every row as it is and returns no error.
C10_LiveServiceNoOp ==
    [][\A k \in services : \A out \in Outcomes :
          ServiceReconcile(k, out) =>
             /\ table' = table
             /\ svcStmts' = 0
             /\ svcLog' = svcLog
             /\ svcResult' = Result(0, "")]_vars

\* the Service exists, its Reconcile has returned without a statement, and
\* the rows of its partition are there
C10_Witness ==
    /\ svcPc = "returned"
    /\ svcStmts = 0
    /\ svcResult = Result(0, "")
    /\ <<"ns1", "svcA">> \in services
    /\ Cardinality(PartitionOf(table, "c1", "ns1", "svcA")) = 2

\* ------------------------------------------------------------------
\* the result of an early exit: no error, re-delivery after the interval
Requeued == Result(RequeueAfter, "")

\* the invocation for key k has returned r and has touched neither the
\* table nor the store
EndsUntouched(k, r) ==
    /\ esPc' = "returned"
    /\ req' = k
    /\ esResult' = r
    /\ list' = <<>>
    /\ tx' = NoTx /\ clock' = clock
    /\ table' = table

\* C11 (deleted membership object is a no-op): an invocation whose fetch
\* reports not found opens no transaction, leaves every row as it is, returns
\* no error and asks for the re-delivery of its key after RequeueAfter.
C11_NotFoundNoOp ==
    [][\A k \in SliceKeys :
          (slices[k] = Absent /\ ReconcileGet(k, "ok")) => EndsUntouched(k, Requeued)]_vars

\* the invocation for the deleted slice a has returned; the rows an earlier
\* convergence wrote for it are still there
C11_Witness ==
    /\ esPc = "returned"
    /\ req = <<"ns1", "a">>
    /\ slices[<<"ns1", "a">>] = Absent
    /\ esResult = Requeued
    /\ \E r \in PartitionOf(table, "c1", "ns1", "svcA") : r.first_seen = 1

\* C12 (other early exits write nothing): an invocation whose object is
\* found but fails the configured selector, or has no or an empty
\* service-name label, lists nothing, opens no transaction, leaves every row
\* as it is (whatever its siblings hold), returns no error and asks for the
\* periodic re-delivery; the decision is taken on the labels the object has
\* at this invocation.
C12_EarlyExits ==
    [][\A k \in SliceKeys :
          ( /\ slices[k] # Absent
            /\ \/ LabelSelector # <<>> /\ ~Satisfies(slices[k].Labels, LabelSelector)
               \/ LabelServiceName \notin DOMAIN slices[k].Labels
               \/ slices[k].Labels[LabelServiceName] = ""
            /\ ReconcileGet(k, "ok") )
          => EndsUntouched(k, Requeued)]_vars

\* slice a, whose rows an earlier invocation wrote when it matched the
\* selector, no longer matches it: the invocation has returned early
C12_Witness ==
    /\ esPc = "returned"
    /\ req = <<"ns1", "a">>
    /\ LabelSelector # <<>>
    /\ slices[<<"ns1", "a">>] = BodyANoT
    /\ slices[<<"ns1", "b">>] = Absent
    /\ esResult = Requeued
    /\ esLog = NoLog
    /\ \E r \in table : r.pod_uid = "ns1/svcA/10.0.0.2" /\ r.first_seen = 1

\* the step returns the error e, with nothing committed and the
\* transaction ended
Fails(e) ==
    /\ esPc' = "returned"
    /\ esResult'.err = e
    /\ table' = table
    /\ tx' = NoTx

\* C13 (membership error propagation): a failing Get (other than not found),
\* List, Begin, upsert, prune or Commit ends the invocation at once with that
\* error returned and the table as it was: nothing is committed and the
\* failed step is not tried again.
C13_ErrorsPropagate ==
    [][ /\ \A k \in SliceKeys : ReconcileGet(k, "err") => Fails("get")
        /\ ReconcileList("err") => Fails("list")
        /\ syncToDatabase("err") => Fails("begin")
        /\ \A uid \in DOMAIN desired : upsertRows(uid, "err") => Fails("upsert")
        /\ pruneRows("err") => Fails("prune")
        /\ Commit("err") => Fails("commit")
        /\ (WorkerStep /\ esResult'.err \notin {"", "none"}) => table' = table ]_vars

\* the commit of a transaction failed: the error is returned and the table is
\* the one the process found
C13_Witness ==
    /\ esPc = "returned"
    /\ esResult = Result(0, "commit")
    /\ clock = 1
    /\ table \in PriorTables \ {{}}

\* C14 (Service Lifecycle error propagation): a fetch error other than not
\* found is returned and no delete is executed; a failing delete is returned;
\* in both cases the table is as before, no success is reported and the key
\* stays queued.
C14_ServiceErrors ==
    [][\A k \in ServiceKeys :
          /\ ServiceReconcile(k, "geterr") =>
                /\ svcResult'.err = "get"
                /\ svcStmts' = 0
                /\ table' = table
                /\ k \in svcQueue'
          /\ (k \notin services /\ ServiceReconcile(k, "err")) =>
                /\ svcResult'.err = "exec"
                /\ table' = table
                /\ svcLog' = svcLog
                /\ k \in svcQueue']_vars

\* the fetch of the deleted Service svcA failed: no statement, the rows of
\* its partition are there
C14_Witness ==
    /\ svcPc = "returned"
    /\ svcResult = Result(0, "get")
    /\ svcStmts = 0
    /\ <<"ns1", "svcA">> \notin services
    /\ <<"ns1", "svcA">> \in svcQueue
    /\ PartitionOf(table, "c1", "ns1", "svcA") # {}

\* C15 (periodic re-delivery after success): every invocation that commits
\* returns, for the key it was given, a result without error that asks for
\* re-delivery after RequeueAfter, whether or not a row changed.
C15_RequeueAfterCommit ==
    [][CommitStep =>
         /\ esResult' = Result(RequeueAfter, "")
         /\ RequeueAfter > 0
         /\ req' = req /\ req \in SliceKeys]_vars

\* a convergence with no desired row on an empty table has committed:
\* nothing was inserted, updated or deleted, and re-delivery is asked for
C15_Witness ==
    /\ esPc = "returned"
    /\ esLog.msg = "synced endpoints"
    /\ esLog.count = 0
    /\ clock = 1
    /\ table = {}
    /\ esResult = Result(RequeueAfter, "")

\* C19 (cancellation never partially commits): when the context is cancelled
\* after Begin and before Commit has succeeded, the invocation returns with
\* the transaction rolled back and the table untouched by it; no step of
\* the worker before the commit changes the table either.
C19_CancelRollsBack ==
    [][ /\ (tx.open /\ esResult'.err = "canceled") =>
              /\ esPc' = "returned"
              /\ tx' = NoTx
              /\ table' = table
        /\ (tx.open /\ WorkerStep /\ ~CommitStep) => table' = table ]_vars

\* cancelled after both upserts and the prune were executed: the table is the
\* one the process found
C19_Witness ==
    /\ esPc = "returned"
    /\ esResult = Result(0, "canceled")
    /\ clock = 1
    /\ slices[<<"ns1", "a">>] = BodyA1
    /\ table \in PriorTables \ {{}}

\* C20 (single-flight per reconciler type): an invocation of either
\* reconciler starts only when none of the same type is in flight, a
\* transaction begins only when none is open, and an open transaction
\* belongs to the one invocation in flight; a Membership and a Service
\* invocation may be in flight together.
C20_SingleFlight ==
    [][ /\ (\E k \in SliceKeys, out \in Outcomes : ReconcileGet(k, out)) =>
              (esPc = "idle" /\ ~tx.open /\ req = <<>>)
        /\ (\E k \in ServiceKeys, out \in Outcomes \cup {"geterr"} : ServiceReconcile(k, out)) =>
              svcPc = "idle"
        /\ (tx'.open /\ ~tx.open) => esPc = "begin"
        /\ tx'.open => esPc' \in {"upsert", "commit"} ]_vars

\* the Service worker has deleted the rows of svcA and not yet handed back
\* its result while the EndpointSlice worker holds an open transaction
C20_Witness ==
    /\ tx.open
    /\ esPc = "commit"
    /\ Len(tx.stmts) = 3
    /\ svcPc = "returned"
    /\ svcStmts = 1
    /\ svcResult = Result(0, "")

\* ------------------------------------------------------------------
Namespaces   == {k[1] : k \in SliceKeys}
ServiceNames == {k[2] : k \in ServiceKeys}

\* the identities of the ready, addressed endpoints of the EndpointSlices of
\* service svc in namespace ns that exist now and match the selector
CurrentIds(ns, svc) ==
    UNION { {Identity(ep, ns, svc) : ep \in {e \in Range(slices[k].Endpoints) : Admitted(e)}} :
            k \in {j \in SliceKeys :
                     /\ slices[j] # Absent
                     /\ j[1] = ns
                     /\ MapGet(slices[j].Labels, LabelServiceName) = svc
                     /\ Satisfies(slices[j].Labels, LabelSelector)} }

Converged ==
    \A ns \in Namespaces, svc \in ServiceNames :
        Uids(PartitionOf(table, ClusterName, ns, svc)) = CurrentIds(ns, svc)

\* C16 as claimed (eventual convergence, no stale survivors): with no more
\* failures, every key re-delivered and the cluster no longer changing, every
\* partition eventually holds exactly the identities of the ready, addressed
\* endpoints of the existing selector-matching EndpointSlices of its service,
\* and stays so. Stated for the behaviours in which the Service svcA is
\* never deleted, where no Service deletion takes part.
C16_AsClaimed == [](<<"ns1", "svcA">> \in services) => <>[]Converged

\* the EndpointSlices of namespace ns1 are gone
SlicesGone == \A k \in SliceKeys : k[1] = "ns1" => slices[k] = Absent

SvcAEmpty == PartitionOf(table, ClusterName, "ns1", "svcA") = {}

\* C17 as claimed (service deletion is reflected by the running program):
\* in the process as main sets it up, once the Service svcA is deleted and
\* its EndpointSlices are gone, the rows of its partition are eventually
\* deleted.
C17_AsClaimed ==
    (<<"ns1", "svcA">> \notin services /\ SlicesGone) ~> SvcAEmpty

\* the Service svcA is deleted and the Service worker has dealt with the event
DeletionRan ==
    /\ <<"ns1", "svcA">> \notin services
    /\ <<"ns1", "svcA">> \notin svcQueue
    /\ svcPc = "idle"

\* C18 as claimed (self-healing of resurrected rows): once the Service
\* deletion for a partition has run and the membership objects are gone, the
\* rows a convergence committed after it are removed by the periodic
\* re-deliveries: eventually the partition of the deleted Service is empty.
C18_AsClaimed ==
    (DeletionRan /\ SlicesGone /\ esPc = "idle") ~> SvcAEmpty

\* ------------------------------------------------------------------
\* the rows of R with identity u
WithUid(R, u) == {r \in R : r.pod_uid = u}

\* C21 (upsert frame): the commit of a convergence leaves one row for each
\* desired identity, with the desired address, ready, and last_seen at the
\* transaction's time; where a row was there its first_seen and pod_name are
\* kept and its last_seen moves forward, and where none was there the row is
\* inserted with first_seen at the transaction's time and the desired name.
C21_UpsertFrame ==
    [][CommitStep =>
         \A u \in DOMAIN desired :
            /\ Cardinality(WithUid(Mine(table'), u)) = 1
            /\ \A n \in WithUid(Mine(table'), u) :
                  /\ n.pod_ip = desired[u].IP
                  /\ n.ready
                  /\ n.last_seen = tx.now
                  /\ IF WithUid(Mine(table), u) = {}
                     THEN n.first_seen = tx.now /\ n.pod_name = desired[u].Name
                     ELSE \A o \in WithUid(Mine(table), u) :
                             /\ n.first_seen = o.first_seen
                             /\ n.pod_name = o.pod_name
                             /\ o.last_seen < n.last_seen]_vars

\* two convergences in a row: the row of u1, found with the name p0 and
\* another address, keeps its name and first_seen and has the new address;
\* the row inserted by the first convergence was refreshed by the second
C21_Witness ==
    /\ esPc = "returned"
    /\ esLog.msg = "synced endpoints"
    /\ clock = 2
    /\ \E r \in PartitionOf(table, "c1", "ns1", "svcA") :
          /\ r.pod_uid = "u1" /\ r.pod_name = "p0" /\ r.pod_ip = "10.0.0.1"
          /\ r.first_seen = 0 /\ r.last_seen = 2
    /\ \E r \in PartitionOf(table, "c1", "ns1", "svcA") :
          /\ r.pod_uid = "ns1/svcA/10.0.0.2" /\ r.first_seen = 1 /\ r.last_seen = 2

\* C22 (ready flag): every row of the table has ready = true in every
\* state (the rows found at the start are rows this process wrote), and the
\* commit of a convergence leaves in its partition only rows of endpoints
\* that are ready or unflagged: the row of an endpoint that turned not ready
\* is removed, not flagged.
C22_ReadyAlways ==
    /\ [](\A r \in table : r.ready = TRUE)
    /\ [][CommitStep =>
            \A r \in Mine(table') :
               /\ r.ready = TRUE
               /\ \E q \in AdmittedAt(list) : IdAt(list, q, service) = r.pod_uid]_vars

\* u1 was ready and had its row; it turned not ready, and the convergence
\* that followed removed the row and kept the one of the other endpoint
C22_Witness ==
    /\ esPc = "returned"
    /\ esLog.msg = "synced endpoints"
    /\ clock = 2
    /\ slices[<<"ns1", "a">>] = BodyA1Down
    /\ slices[<<"ns1", "b">>] = Absent
    /\ \E r \in PartitionOf(table, "c1", "ns1", "svcA") :
          r.pod_uid = "ns1/svcA/10.0.0.2" /\ r.first_seen = 1 /\ r.ready
    /\ WithUid(PartitionOf(table, "c1", "ns1", "svcA"), "u1") = {}

\* ------------------------------------------------------------------
\* The selector matcher, on the labels of the EndpointSlice that Get returns.
\* What a selector string says, read off its characters:
\* the positions of its commas, and the two ends
CutsOf(s) == {0, Len(s) + 1} \cup {i \in 1..Len(s) : s[i] = ","}

\* its clauses: the text between two neighbouring cuts
ClausesOf(s) ==
    {SubSeq(s, c[1] + 1, c[2] - 1) :
        c \in {d \in CutsOf(s) \X CutsOf(s) :
                 /\ d[1] < d[2]
                 /\ \A x \in CutsOf(s) : ~(d[1] < x /\ x < d[2])}}

\* an empty clause: nothing, or whitespace
Blank(c) == \A i \in 1..Len(c) : c[i] \in Whitespace

\* c without the whitespace before its first and after its last other character
Strip(c) ==
    LET nz == {i \in 1..Len(c) : c[i] \notin Whitespace}
    IN  IF nz = {} THEN <<>>
        ELSE SubSeq(c, CHOOSE i \in nz : \A j \in nz : i <= j,
                       CHOOSE i \in nz : \A j \in nz : j <= i)

EqsOf(c) == {i \in 1..Len(c) : c[i] = "="}

FirstEq(c) == CHOOSE i \in EqsOf(c) : \A j \in EqsOf(c) : i <= j

\* the key and the value of a clause that has an "="
KeyText(c)   == Str(SubSeq(Strip(c), 1, FirstEq(Strip(c)) - 1))
ValueText(c) == Str(SubSeq(Strip(c), FirstEq(Strip(c)) + 1, Len(Strip(c))))

\* the label map has the clause's key, with the clause's value
Holds(l, c) == KeyText(c) \in DOMAIN l /\ l[KeyText(c)] = ValueText(c)

\* s with the text x put after its first i characters
InsertAt(s, i, x) == SubSeq(s, 1, i) \o x \o SubSeq(s, i + 1, Len(s))

\* s without its i-th character
RemoveAt(s, i) == SubSeq(s, 1, i - 1) \o SubSeq(s, i + 1, Len(s))

\* the places between two characters of s that are the start or the end of
\* a clause: the ends of s and both sides of a comma
ClauseEdges(s) ==
    {i \in 0..Len(s) : i = 0 \/ i = Len(s) \/ s[i] = "," \/ s[i + 1] = ","}

\* s[j] is the first "=" of its clause
IsFirstEq(s, j) ==
    /\ j \in 1..Len(s)
    /\ s[j] = "="
    /\ \A h \in 1..(j - 1) : s[h] = "=" => \E g \in (h + 1)..(j - 1) : s[g] = ","

\* the places on both sides of the first "=" of a clause
EqEdges(s) == {i \in 0..Len(s) : IsFirstEq(s, i) \/ IsFirstEq(s, i + 1)}

\* s with one whitespace character put in at, or taken from, a place of E
WhitespaceMoved(s, E) ==
    {InsertAt(s, i, <<w>>) : i \in E, w \in Whitespace}
    \cup {RemoveAt(s, i) : i \in {j \in 1..Len(s) :
                                    s[j] \in Whitespace /\ (j \in E \/ j - 1 \in E)}}

\* the labels of the EndpointSlice given to the matcher
Lbls == slices[MatchKey].Labels

\* C23 (vacuous match): a selector whose clauses are all empty (commas and
\* whitespace only, the empty string included) matches every label map, the
\* empty one too; and an empty clause put at the start, at the end or next to
\* a comma of any selector leaves the matcher's result as it was.
C23_VacuousMatch ==
    /\ (\A c \in ClausesOf(LabelSelector) : Blank(c)) => matchKV(Lbls, LabelSelector)
    /\ \A i \in ClauseEdges(LabelSelector) :
         \A x \in {<<",">>, <<" ", ",">>, <<",", "\t">>} :
            matchKV(Lbls, InsertAt(LabelSelector, i, x)) = matchKV(Lbls, LabelSelector)

\* the selector " ," was checked against labels without t or a, and the
\* invocation went on to List
C23_Witness ==
    /\ esPc = "list"
    /\ LabelSelector = <<" ", ",">>
    /\ Lbls = SvcLabel("svcA")

\* C24 (malformed clause): a selector with a clause that is not empty and
\* has no "=" matches no label map, wherever the clause stands and whatever
\* the other clauses are.
C24_Malformed ==
    (\E c \in ClausesOf(LabelSelector) : ~Blank(c) /\ EqsOf(c) = {})
        => ~matchKV(Lbls, LabelSelector)

\* the selector "t=w,t" rejected labels that hold t=w: the invocation
\* returned early
C24_Witness ==
    /\ esPc = "returned"
    /\ esResult = Requeued
    /\ LabelSelector = <<"t", "=", "w", ",", "t">>
    /\ Lbls = SvcLabel("svcA") @@ ("t" :> "w")

\* C25 as claimed (conjunction over existing keys): the matcher returns true
\* only if every clause that is not empty has an "=" and names a key that
\* the label map holds with exactly the clause's value; a missing key makes
\* it return false.
C25_AsClaimed ==
    matchKV(Lbls, LabelSelector) =>
        \A c \in ClausesOf(LabelSelector) :
            Blank(c) \/ (EqsOf(c) # {} /\ Holds(Lbls, c))

\* C26 (split on the first "="): the key of a clause is the text before its
\* first "=" and the value all the text after it: a selector all of whose
\* clauses hold of the label map matches it, and a selector of one clause
\* matches exactly the label maps that hold its key with its value (for a
\* key the map holds, and for any key when the value is not empty).
C26_FirstEq ==
    /\ (\A c \in ClausesOf(LabelSelector) :
           Blank(c) \/ (EqsOf(c) # {} /\ Holds(Lbls, c)))
         => matchKV(Lbls, LabelSelector)
    /\ (CutsOf(LabelSelector) = {0, Len(LabelSelector) + 1} /\ EqsOf(LabelSelector) # {}) =>
         /\ KeyText(LabelSelector) \in DOMAIN Lbls =>
               (matchKV(Lbls, LabelSelector) <=> Holds(Lbls, LabelSelector))
         /\ ValueText(LabelSelector) # "" =>
               (matchKV(Lbls, LabelSelector) <=> Holds(Lbls, LabelSelector))

\* the selector "t=w=w" accepted the labels in which t has the value "w=w"
C26_Witness ==
    /\ esPc = "list"
    /\ LabelSelector = <<"t", "=", "w", "=", "w">>
    /\ Lbls = SvcLabel("svcA") @@ ("t" :> "w=w")

\* C27 as claimed (whitespace insensitivity): a whitespace character put in
\* or taken out at the start or the end of a clause, or next to the "=" that
\* parts its key from its value, leaves the matcher's result as it was.
C27_AsClaimed ==
    \A v \in WhitespaceMoved(LabelSelector,
                             ClauseEdges(LabelSelector) \cup EqEdges(LabelSelector)) :
        matchKV(Lbls, v) = matchKV(Lbls, LabelSelector)

\* C27 as amended: a whitespace character put in or taken out at the start
\* or the end of a clause (around a comma, at the ends of the selector)
\* leaves the matcher's result as it was.
C27_ClauseWhitespace ==
    \A v \in WhitespaceMoved(LabelSelector, ClauseEdges(LabelSelector)) :
        matchKV(Lbls, v) = matchKV(Lbls, LabelSelector)

\* the selector " t=w<tab>" accepted labels that hold t=w
C27_Witness ==
    /\ esPc = "list"
    /\ LabelSelector = <<" ", "t", "=", "w", "\t">>
    /\ Lbls = SvcLabel("svcA") @@ ("t" :> "w")

\* ------------------------------------------------------------------
\* The table identifier, read off the statements the reconcilers issued.
\* the quoted identifiers of the statements of the open transaction and of
\* the statement of the Service worker
IssuedTbls ==
    {tx.stmts[i].tbl : i \in 1..Len(tx.stmts)}
    \cup (IF svcTbl # <<>> THEN {svcTbl} ELSE {})

\* What a table name says: its segments are the texts between its dots.
DotsOf(s) == {i \in 1..Len(s) : s[i] = "."}

\* the place of the n-th dot of s; 0 before the first and Len(s) + 1 after the last
NthCut(s, n) ==
    IF n = 0 THEN 0
    ELSE IF n > Cardinality(DotsOf(s)) THEN Len(s) + 1
    ELSE CHOOSE d \in DotsOf(s) : Cardinality({e \in DotsOf(s) : e < d}) = n - 1

SegmentsOf(s) ==
    [n \in 1..(Cardinality(DotsOf(s)) + 1) |->
        SubSeq(s, NthCut(s, n - 1) + 1, NthCut(s, n) - 1)]

RECURSIVE ReadOpen(_, _, _)
RECURSIVE ReadBody(_, _, _, _)
\* How SQL reads a dotted sequence of quoted identifiers: a quote opens an
\* identifier, a doubled quote inside stands for one quote, a single quote
\* closes it, and a dot leads to the next. The identifiers read, <<>> when
\* the text is not of this form.
ReadOpen(t, i, done) ==
    IF i > Len(t) \/ t[i] # Quote THEN <<>>
    ELSE ReadBody(t, i + 1, <<>>, done)

ReadBody(t, i, cur, done) ==
    IF i > Len(t) THEN <<>>
    ELSE IF t[i] # Quote THEN ReadBody(t, i + 1, Append(cur, t[i]), done)
    ELSE IF i < Len(t) /\ t[i + 1] = Quote THEN ReadBody(t, i + 2, Append(cur, Quote), done)
    ELSE IF i = Len(t) THEN Append(done, cur)
    ELSE IF t[i + 1] = "." THEN ReadOpen(t, i + 2, Append(done, cur))
    ELSE <<>>

ReadIdents(t) == ReadOpen(t, 1, <<>>)

\* "public"."server"
QuotedDefault ==
    <<Quote, "p", "u", "b", "l", "i", "c", Quote, ".",
      Quote, "s", "e", "r", "v", "e", "r", Quote>>

\* C28 (table identifier sanitizer): every statement issued for one table
\* name carries the same identifier; for the empty name it is
\* "public"."server"; for any other name it reads as exactly the name's
\* dot-separated segments, as many and in the same order, each quoted on
\* its own, whatever characters they hold.
C28_Sanitizer ==
    /\ Cardinality(IssuedTbls) <= 1
    /\ \A t \in IssuedTbls :
         IF TableName = <<>> THEN t = QuotedDefault
         ELSE /\ ReadIdents(t) = SegmentsOf(TableName)
              /\ Len(ReadIdents(t)) = Cardinality(DotsOf(TableName)) + 1

\* both workers have issued a statement for the table name 1A.- (a leading
\* digit, mixed case, a hyphen and a space)
C28_Witness ==
    /\ TableName = <<"1", "A", ".", "-", " ">>
    /\ Len(tx.stmts) = 3
    /\ svcTbl = <<Quote, "1", "A", Quote, ".", Quote, "-", " ", Quote>>
    /\ tx.stmts[3].tbl = svcTbl

\* C29 as claimed (default destination table): with TABLE_NAME not set and
\* no flag "table", every statement the reconcilers issue is on
\* "public"."server".
C29_AsClaimed ==
    ("TABLE_NAME" \notin DOMAIN env /\ args = <<>>) =>
        \A t \in IssuedTbls : t = QuotedDefault

\* C30 (store configuration validation): newPoolFromEnv returns the error
\* "missing PG env vars" if and only if one of PGHOST, PGUSER, PGPASSWORD,
\* PGDATABASE is not set or empty, and then without a connection attempt;
\* otherwise it goes on with the four values as given, the port 5432 when
\* PGPORT is not set or empty and the sslmode require when PGSSLMODE is not
\* set or empty.
C30_PoolValidation ==
    [][(mainPc = "postgres" /\ mainPc' # "postgres") =>
         LET missing == \E k \in RequiredPG : k \notin DOMAIN env \/ env[k] = <<>>
             unset(k) == k \notin DOMAIN env \/ env[k] = <<>>
         IN  /\ pool'.err = MissingPGEnv <=> missing
             /\ missing => (pool'.connects = 0 /\ pool'.cfg = <<>> /\ mainPc' = "exit")
             /\ pool'.cfg # <<>> =>
                  /\ \A k \in RequiredPG : k \in DOMAIN env
                  /\ pool'.cfg[1].host = env["PGHOST"]
                  /\ pool'.cfg[1].user = env["PGUSER"]
                  /\ pool'.cfg[1].password = env["PGPASSWORD"]
                  /\ pool'.cfg[1].dbname = env["PGDATABASE"]
                  /\ pool'.cfg[1].port =
                       (IF unset("PGPORT") THEN <<"5", "4", "3", "2">> ELSE env["PGPORT"])
                  /\ pool'.cfg[1].sslmode =
                       (IF unset("PGSSLMODE") THEN <<"r", "e", "q", "u", "i", "r", "e">>
                        ELSE env["PGSSLMODE"])
             /\ (~missing /\ mainPc' = "running") => pool'.cfg # <<>>]_vars

\* PGPASSWORD is set and empty, the other three are given: the process has
\* ended with the error and without a connection attempt
C30_Witness ==
    /\ mainPc = "exit"
    /\ pool = [err |-> MissingPGEnv, cfg |-> <<>>, connects |-> 0]
    /\ RequiredPG \subseteq DOMAIN env
    /\ env["PGPASSWORD"] = <<>>
    /\ \A k \in RequiredPG \ {"PGPASSWORD"} : env[k] # <<>>

\* ------------------------------------------------------------------
\* the positions of the statements of kind sql in q
StmtsOf(q, sql) == {i \in 1..Len(q) : q[i].sql = sql}

\* the statements executed so far are upserts of distinct desired identities
\* of the partition, then at most one prune of the partition, the last one,
\* executed once every desired identity has been upserted
StatementOrder ==
    LET q   == tx.stmts
        ups == StmtsOf(q, "upsert")
    IN  /\ q # <<>> => tx.open
        /\ tx.open => esPc \in {"upsert", "commit"}
        /\ \A i \in 1..Len(q) : q[i].sql \in {"upsert", "prune"}
        /\ \A i \in ups :
              /\ <<q[i].args[1], q[i].args[2], q[i].args[3]>> =
                    <<ClusterName, es[1].Namespace, service>>
              /\ q[i].args[4] \in DOMAIN desired
              /\ \A j \in ups : j # i => q[j].args[4] # q[i].args[4]
        /\ \A i \in StmtsOf(q, "prune") :
              /\ i = Len(q)
              /\ ups = 1..(Len(q) - 1)
              /\ {q[j].args[4] : j \in ups} = DOMAIN desired
              /\ q[i].args = <<ClusterName, es[1].Namespace, service, DOMAIN desired>>
        /\ tx.open => (esPc = "commit" <=> StmtsOf(q, "prune") # {})

\* tx.Commit is called, whatever it answers
CommitIssued == esPc = "commit" /\ esResult'.err \in {"", "commit"}

\* a statement of the transaction fails
StatementFails == esPc = "upsert" /\ esResult'.err \in {"upsert", "prune"}

\* C31 (statement protocol of one convergence): the statements of an
\* invocation are executed on its one open transaction, in the order: one
\* upsert for each desired identity (none for an empty desired set), then one
\* prune restricted to the partition key, then the commit. The prune comes
\* only after every upsert has succeeded, and a failed statement ends the
\* invocation without a commit.
C31_StatementProtocol ==
    /\ []StatementOrder
    /\ [][ /\ tx'.stmts # tx.stmts /\ tx'.stmts # <<>> =>
                 (tx.open /\ tx'.open /\ tx'.now = tx.now /\ table' = table)
           /\ CommitIssued =>
                 /\ tx.open
                 /\ Len(tx.stmts) = Cardinality(DOMAIN desired) + 1
                 /\ tx.stmts[Len(tx.stmts)].sql = "prune"
           /\ StatementFails =>
                 (esPc' = "returned" /\ tx' = NoTx /\ table' = table) ]_vars

\* two upserts and the prune were executed and the commit has succeeded
C31_Witness ==
    /\ esPc = "returned"
    /\ esResult = Result(RequeueAfter, "")
    /\ esLog.msg = "synced endpoints"
    /\ esLog.count = 2
    /\ clock = 1

\* the key of the table: PRIMARY KEY (cluster, namespace, service, pod_uid)
KeyOf(r) == <<r.cluster, r.namespace, r.service, r.pod_uid>>

\* C32 (key uniqueness): in every reachable state, whatever convergences and
\* Service deletions have run and however they interleaved, no two rows of
\* the table have the same (cluster, namespace, service, pod_uid); and a
\* convergence that commits a desired identity whose key had a row leaves one
\* row of that key, the row that was there (it keeps its first_seen), updated.
C32_KeyUnique ==
    /\ [](\A r1 \in table, r2 \in table : KeyOf(r1) = KeyOf(r2) => r1 = r2)
    /\ [][CommitStep =>
            \A u \in DOMAIN desired : \A old \in WithUid(Mine(table), u) :
                /\ Cardinality(WithUid(Mine(table'), u)) = 1
                /\ \A r \in WithUid(Mine(table'), u) :
                      /\ r.first_seen = old.first_seen
                      /\ r.last_seen = tx.now
                      /\ r.pod_ip = desired[u].IP]_vars

\* a convergence inserted u1, a second one has committed u1 again, and a
\* Service deletion has run in between or before: the row of u1 is the one
\* the first convergence inserted, with the time of the second
C32_Witness ==
    /\ esPc = "returned"
    /\ esLog.msg = "synced endpoints"
    /\ clock = 2
    /\ svcPc = "returned"
    /\ svcStmts = 1
    /\ \E r \in table : KeyOf(r) = <<"c1", "ns1", "svcA", "u1">> /\ r.first_seen = 1 /\ r.last_seen = 2

\* the rows of T outside the partition (c, namespace, svc)
Outside(T, c, namespace, svc) == T \ PartitionOf(T, c, namespace, svc)

\* C33 (partition isolation of convergence): an invocation of the Membership
\* reconciler for the object of key (N, name) whose service-name label is S
\* changes the table at its commit alone, and there only in the partition
\* (configured cluster, N, S): the rows of every other cluster, namespace or
\* service are the same before and after, also those of another service that
\* carry a pod_uid of the desired set.
C33_PartitionIsolation ==
    [][ /\ (WorkerStep /\ ~CommitStep) => table' = table
        /\ CommitStep =>
              /\ es[1].Namespace = req[1]
              /\ service # ""
              /\ Outside(table', ClusterName, req[1], service) =
                    Outside(table, ClusterName, req[1], service) ]_vars

\* a convergence of ns1/svcA has committed u1 and removed the stale row; the
\* rows of u1 in another cluster, another namespace and another service are
\* the ones the process found
C33_Witness ==
    /\ esPc = "returned"
    /\ esLog.msg = "synced endpoints"
    /\ req[1] = "ns1"
    /\ \E r \in PartitionOf(table, "c1", "ns1", "svcA") :
          r.pod_uid = "u1" /\ r.last_seen = clock /\ r.pod_ip = "10.0.0.1"
    /\ "gone" \notin Uids(PartitionOf(table, "c1", "ns1", "svcA"))
    /\ Outside(table, "c1", "ns1", "svcA") =
         { PriorRow("c2", "ns1", "svcA", "u1", "p1", "10.0.0.1"),
           PriorRow("c1", "ns2", "svcA", "u1", "p1", "10.0.0.1"),
           PriorRow("c1", "ns1", "svcB", "u1", "p1", "10.0.0.1") }

\* C34 (an empty desired set empties the partition): when the fetched object
\* passes the early exits and no endpoint of the listed objects is admitted
\* (every entry is not ready or has no address, or every listed object is
\* rejected by the selector), the convergence that commits has executed no
\* upsert and one prune, and leaves no row in the partition.
C34_EmptyDesired ==
    [][(CommitStep /\ DesiredIds(list, service) = {}) =>
          /\ StmtsOf(tx.stmts, "upsert") = {}
          /\ Len(tx.stmts) = 1
          /\ tx.stmts[1].sql = "prune"
          /\ tx.stmts[1].args[4] = {}
          /\ Mine(table') = {}
          /\ esLog'.count = 0]_vars

\* the one object of svcA holds an entry without address and a not-ready one;
\* the convergence has committed and the two rows the process had found in
\* the partition are gone, the rows of the other partitions are there
C34_Witness ==
    /\ esPc = "returned"
    /\ esLog = [msg |-> "synced endpoints", namespace |-> "ns1", service |-> "svcA",
                count |-> 0]
    /\ slices[<<"ns1", "a">>] = BodyEmpty
    /\ slices[<<"ns1", "b">>] = Absent
    /\ clock = 1
    /\ PartitionOf(table, "c1", "ns1", "svcA") = {}
    /\ Cardinality(table) = 3

\* the same after the fetched object lost the selector's label between Get
\* and List: every listed object is rejected by the selector
C34_RejectedReached ==
    /\ esPc = "returned"
    /\ esLog.msg = "synced endpoints"
    /\ esLog.count = 0
    /\ LabelSelector # <<>>
    /\ slices[<<"ns1", "a">>] = BodyANoT
    /\ slices[<<"ns1", "b">>] = Absent

\* ------------------------------------------------------------------
\* SpecRace: one convergence of the partition (c1, ns1, svcA) and one
\* deletion of the Service svcA, with the store's row locks. r.DB.Begin is
\* called without options and r.DB.Exec runs on the pool, so both run at
\* the store's default isolation level, READ COMMITTED: a statement sees the
\* rows committed when it starts, waits for a row that an open transaction
\* has updated or deleted, and then acts on the row's latest version; it
\* does not see the rows that transaction inserted. (The other
\* specifications take the Service worker's DELETE as one step.)
RaceKey     == <<"ns1", "a">>
RaceService == <<"ns1", "svcA">>

\* the tables the process may find
RaceTables ==
    PriorTables \cup
    { { PriorRow("c1", "ns1", "svcA", "u1", "p0", "10.0.0.7"),
        PriorRow("c1", "ns1", "svcA", "ns1/svcA/10.0.0.2", "", "10.0.0.2") },
      { PriorRow("c1", "ns1", "svcA", "u1", "p0", "10.0.0.7") } }

InitRace ==
    /\ LabelSelector = <<>>
    /\ slices \in { [NoSlices EXCEPT ![RaceKey] = a, ![<<"ns1", "b">>] = b] :
                      a \in {BodyA1, BodyANoT, BodyEmpty, BodyA1Down},
                      b \in {Absent, BodyA2} }
    /\ services = {}
    /\ svcQueue = {RaceService}
    /\ table \in RaceTables
    /\ clock = 0
    /\ esPc = "idle"
    /\ req = <<>>
    /\ es = <<>>
    /\ list = <<>>
    /\ desired = NoRows
    /\ tx = NoTx
    /\ esResult = NoResult
    /\ esLog = NoLog
    /\ svcPc = "idle"
    /\ svcResult = NoResult
    /\ svcLog = NoLog
    /\ svcStmts = 0
    /\ Started

\* the committed rows on which the open transaction holds a lock: the rows
\* an executed upsert has updated and the rows the executed prune has deleted
LockedByTx ==
    IF ~tx.open THEN {}
    ELSE {r \in Mine(table) :
            \/ r.pod_uid \in Upserted
            \/ StmtsOf(tx.stmts, "prune") # {} /\ r.pod_uid \notin DOMAIN desired}

\* the upsert of uid meets a row the waiting DELETE has deleted
UpsertWaits(uid) ==
    <<ClusterName, es[1].Namespace, service, uid>> \in svcDel.held

\* the prune meets a row the waiting DELETE has deleted
PruneWaits ==
    /\ esPc = "upsert"
    /\ \E k \in svcDel.held :
          /\ <<k[1], k[2], k[3]>> = <<ClusterName, es[1].Namespace, service>>
          /\ k[4] \notin DOMAIN desired

\* the Service Reconcile for a Service that is gone: its DELETE runs at once
\* when no row it sees is locked; otherwise it has deleted some of the
\* unlocked rows (in the order of its scan) when it meets a locked row, and
\* waits there
ServiceDelete(k) ==
    /\ k \notin services
    /\ LET P == PartitionOf(table, ClusterName, k[1], k[2])
       IN  IF P \cap LockedByTx = {}
           THEN ServiceReconcile(k, "ok")
           ELSE /\ SvcInFlight < MaxConcurrentReconciles
                /\ k \in svcQueue
                /\ \E H \in SUBSET (P \ LockedByTx) :
                      svcDel' = [waiting |-> TRUE, key |-> k,
                                 snap |-> {KeyOf(r) : r \in P},
                                 held |-> {KeyOf(r) : r \in H}]
                /\ svcPc' = "exec"
                /\ svcStmts' = 1
                /\ svcTbl' = sanitizeTableIdent(TableName)
                /\ UNCHANGED <<config, clusterVars, table, clock, esPc, esLocals, tx,
                               esResult, esLog, svcResult, svcLog, svcQueue>>

\* the transaction has ended: the DELETE goes on with the rows it saw when
\* it started, in their latest version; r.DB.Exec returns
ServiceDeleteResumes ==
    /\ svcDel.waiting
    /\ ~tx.open
    /\ table' = {r \in table : KeyOf(r) \notin svcDel.snap}
    /\ svcDel' = NoDel
    /\ svcPc' = "returned"
    /\ svcLog' = [msg |-> "pruned rows for deleted service",
                  namespace |-> svcDel.key[1], service |-> svcDel.key[2], count |-> 0]
    /\ svcResult' = Result(0, "")
    /\ svcQueue' = svcQueue \ {svcDel.key}
    /\ UNCHANGED <<config, clusterVars, clock, esPc, esLocals, tx, esResult, esLog,
                   svcStmts, svcTbl>>

\* the transaction is about to wait for a row the waiting DELETE has deleted:
\* the store ends the deadlock by failing the DELETE (the other way, it fails
\* the transaction's statement); r.DB.Exec returns the error
ServiceDeleteDeadlock ==
    /\ svcDel.waiting
    /\ tx.open
    /\ \/ \E uid \in DOMAIN desired \ Upserted : UpsertWaits(uid)
       \/ PruneWaits
    /\ svcDel' = NoDel
    /\ svcPc' = "returned"
    /\ svcResult' = Result(0, "exec")
    /\ UNCHANGED <<config, clusterVars, table, clock, esPc, esLocals, tx, esResult, esLog,
                   svcStmts, svcTbl, svcLog, svcQueue>>

NextRace ==
    \/ clock < 1 /\ ReconcileGet(RaceKey, "ok")
    \/ ReconcileList("ok")
    \/ syncToDatabase("ok")
    \/ \E uid \in DOMAIN desired : ~UpsertWaits(uid) /\ upsertRows(uid, "ok")
    \/ \E uid \in DOMAIN desired : UpsertWaits(uid) /\ upsertRows(uid, "err")
    \/ ~PruneWaits /\ pruneRows("ok")
    \/ PruneWaits /\ pruneRows("err")
    \/ Commit("ok")
    \/ ServiceDelete(RaceService)
    \/ ServiceDeleteResumes
    \/ ServiceDeleteDeadlock
    \/ TakeServiceResult

SpecRace == InitRace /\ [][NextRace]_vars

\* the desired set of the convergence: the cluster does not change in SpecRace
RaceDesired ==
    DesiredIds(CHOOSE o \in Orders(Listed("ns1", "svcA")) : TRUE, "svcA")

\* the convergence has committed and the deletion's statement has succeeded
RaceDone ==
    /\ esPc = "returned"
    /\ esResult = Result(RequeueAfter, "")
    /\ esLog.msg = "synced endpoints"
    /\ svcQueue = {}
    /\ ~svcDel.waiting

RaceIds == Uids(PartitionOf(table, ClusterName, "ns1", "svcA"))

\* C35 (outcome of the deletion/convergence race): for every interleaving of
\* one convergence with desired set D and one Service deletion on the same
\* partition, once both have completed the identities of the partition are
\* exactly D or none.
C35_AsClaimed == RaceDone => (RaceIds = RaceDesired \/ RaceIds = {})

\* what holds instead: no identity outside D is left
C35_WithinDesired == RaceDone => RaceIds \subseteq RaceDesired

\* ------------------------------------------------------------------
\* SpecEquiv: the EndpointSlice worker alone, built with either Reconcile,
\* over the clusters of Init and the one-endpoint clusters of SpecBuild, with
\* every failure of the API and of the store.
\* Reconcile as one function (internal/controller/endpointslice_controller.go),
\* cut at the same calls as the refactored one.
\* r.Get and the early exits
InlineGet(k, out) ==
    /\ EsInFlight < MaxConcurrentReconciles
    /\ req' = k
    /\ UNCHANGED <<config, clusterVars, table, clock, svcVars, esLog>>
    /\ IF out = "err"
       THEN Return(Result(RequeueAfter, "get"))
       ELSE IF slices[k] = Absent
       THEN Return(Result(RequeueAfter, ""))
       ELSE LET obj == Slice(k, slices[k])
            IN  IF LabelSelector # <<>> /\ ~matchKV(obj.Labels, LabelSelector)
                THEN Return(Result(RequeueAfter, ""))
                ELSE IF MapGet(obj.Labels, LabelServiceName) = ""
                THEN Return(Result(RequeueAfter, ""))
                ELSE /\ esPc' = "list"
                     /\ es' = <<[Namespace |-> obj.Namespace, Labels |-> obj.Labels]>>
                     /\ UNCHANGED <<list, desired, tx, esResult>>

RECURSIVE inlineEndpoints(_, _, _, _)
\* the loop over sl.Endpoints, with its two continue
inlineEndpoints(d, eps, sl, svc) ==
    IF eps = <<>> THEN d
    ELSE LET ep == Head(eps)
         IN  IF ep.Ready # <<>> /\ ~ep.Ready[1]
             THEN inlineEndpoints(d, Tail(eps), sl, svc)
             ELSE IF Len(ep.Addresses) = 0
             THEN inlineEndpoints(d, Tail(eps), sl, svc)
             ELSE LET ip   == ep.Addresses[1]
                      pod  == ep.TargetRef # <<>> /\ ep.TargetRef[1].Kind = "Pod"
                      uid0 == IF pod THEN ep.TargetRef[1].UID ELSE ""
                      name == IF pod THEN ep.TargetRef[1].Name ELSE ""
                      uid  == IF uid0 = ""
                              THEN sl.Namespace \o "/" \o svc \o "/" \o ip
                              ELSE uid0
                  IN  inlineEndpoints(
                          [x \in DOMAIN d \cup {uid} |->
                              IF x = uid THEN [UID |-> uid, Name |-> name, IP |-> ip]
                              ELSE d[x]],
                          Tail(eps), sl, svc)

RECURSIVE inlineItems(_, _, _)
\* the loop over list.Items
inlineItems(d, items, svc) ==
    IF items = <<>> THEN d
    ELSE IF LabelSelector # <<>> /\ ~matchKV(Head(items).Labels, LabelSelector)
    THEN inlineItems(d, Tail(items), svc)
    ELSE inlineItems(inlineEndpoints(d, Head(items).Endpoints, Head(items), svc),
                     Tail(items), svc)

\* r.List and the loops that fill desired
InlineList(out) ==
    /\ esPc = "list"
    /\ UNCHANGED <<config, clusterVars, table, clock, svcVars, esLog>>
    /\ IF out = "err"
       THEN Return(Result(0, "list")) /\ UNCHANGED req
       ELSE \E items \in Orders(Listed(es[1].Namespace, service)) :
               /\ list' = items
               /\ desired' = inlineItems(NoRows, items, service)
               /\ esPc' = "begin"
               /\ UNCHANGED <<req, es, tx, esResult>>

\* r.DB.Begin
InlineBegin(out) ==
    /\ esPc = "begin"
    /\ UNCHANGED <<config, clusterVars, table, svcVars, esLog>>
    /\ IF out = "err"
       THEN Return(Result(0, "begin")) /\ UNCHANGED <<req, clock>>
       ELSE /\ clock' = Tick
            /\ tx' = [open |-> TRUE, now |-> Tick, stmts |-> <<>>]
            /\ esPc' = "upsert"
            /\ UNCHANGED <<req, es, list, desired, esResult>>

\* one iteration of the loop over desired: tx.Exec of the upsert
InlineUpsert(uid, out) ==
    /\ esPc = "upsert"
    /\ uid \in DOMAIN desired \ Upserted
    /\ UNCHANGED <<config, clusterVars, clock, svcVars, esLog>>
    /\ IF out = "err"
       THEN Return(Result(0, "upsert")) /\ UNCHANGED <<req, table>>
       ELSE /\ TxExec([sql |-> "upsert", tbl |-> sanitizeTableIdent(TableName),
                       args |-> <<ClusterName, es[1].Namespace, service,
                                  desired[uid].UID, desired[uid].Name, desired[uid].IP>>])
            /\ UNCHANGED <<table, esPc, req, es, list, desired, esResult>>

\* the collection of uids and tx.Exec of the prune
InlinePrune(out) ==
    /\ esPc = "upsert"
    /\ DOMAIN desired \ Upserted = {}
    /\ UNCHANGED <<config, clusterVars, clock, svcVars, esLog>>
    /\ IF out = "err"
       THEN Return(Result(0, "prune")) /\ UNCHANGED <<req, table>>
       ELSE /\ TxExec([sql |-> "prune", tbl |-> sanitizeTableIdent(TableName),
                       args |-> <<ClusterName, es[1].Namespace, service, DOMAIN desired>>])
            /\ esPc' = "commit"
            /\ UNCHANGED <<table, req, es, list, desired, esResult>>

\* tx.Commit, the log record and the return
InlineCommit(out) ==
    /\ esPc = "commit"
    /\ UNCHANGED <<config, clusterVars, clock, svcVars>>
    /\ IF out = "err"
       THEN Return(Result(0, "commit")) /\ UNCHANGED <<req, table, esLog>>
       ELSE /\ table' = ExecAll(table, tx.stmts, tx.now)
            /\ esLog' = [msg |-> "synced endpoints", namespace |-> es[1].Namespace,
                         service |-> service, count |-> Cardinality(DOMAIN desired)]
            /\ Return(Result(RequeueAfter, ""))
            /\ UNCHANGED req

\* the clusters of SpecEquiv
EquivClusters ==
    {f \in [SliceKeys -> UNION {Bodies(k) : k \in SliceKeys} \cup {Absent}] :
        \A k \in SliceKeys : f[k] \in Bodies(k) \cup {Absent}}
    \cup OneEndpointClusters

InitEquiv ==
    /\ impl \in Impls
    /\ LabelSelector \in Selectors
    /\ slices \in EquivClusters
    /\ table \in PriorTables
    /\ services = {}
    /\ svcQueue = {}
    /\ clock = 0
    /\ esPc = "idle"
    /\ req = <<>>
    /\ es = <<>>
    /\ list = <<>>
    /\ desired = NoRows
    /\ tx = NoTx
    /\ esResult = NoResult
    /\ esLog = NoLog
    /\ svcPc = "idle"
    /\ svcResult = NoResult
    /\ svcLog = NoLog
    /\ svcStmts = 0
    /\ svcTbl = <<>>
    /\ svcDel = NoDel
    /\ env = RunEnv
    /\ args = <<>>
    /\ mainPc = "running"
    /\ pool = [err |-> "", cfg |-> <<poolConfig(RunEnv)>>, connects |-> 1]
    /\ TableName = flagTable(RunEnv, <<>>)

\* the worker runs the Reconcile that is built in
NextEquiv ==
    \/ \E k \in SliceKeys, out \in Outcomes :
          impl = "refactored" /\ clock < MaxClock /\ ReconcileGet(k, out)
    \/ \E out \in Outcomes : impl = "refactored" /\ ReconcileList(out)
    \/ \E out \in Outcomes : impl = "refactored" /\ syncToDatabase(out)
    \/ \E uid \in DOMAIN desired, out \in Outcomes :
          impl = "refactored" /\ upsertRows(uid, out)
    \/ \E out \in Outcomes : impl = "refactored" /\ pruneRows(out)
    \/ \E out \in Outcomes : impl = "refactored" /\ Commit(out)
    \/ \E k \in SliceKeys, out \in Outcomes :
          impl = "inline" /\ clock < MaxClock /\ InlineGet(k, out)
    \/ \E out \in Outcomes : impl = "inline" /\ InlineList(out)
    \/ \E out \in Outcomes : impl = "inline" /\ InlineBegin(out)
    \/ \E uid \in DOMAIN desired, out \in Outcomes :
          impl = "inline" /\ InlineUpsert(uid, out)
    \/ \E out \in Outcomes : impl = "inline" /\ InlinePrune(out)
    \/ \E out \in Outcomes : impl = "inline" /\ InlineCommit(out)
    \/ Canceled
    \/ TakeEndpointSliceResult

SpecEquiv == InitEquiv /\ [][NextEquiv]_vars

\* C36 (refactoring equivalence): from every state either build reaches, and
\* for every request key, outcome of the API or store call, order of the
\* listed objects and choice of the next identity to upsert, a step of the
\* refactored Reconcile and the step of the one-function Reconcile at the
\* same call lead to the same state: the same statement with the same
\* parameters in the transaction, the same table, the same log record, and
\* the same result and error.
C36_SameSteps ==
    [][ /\ \A k \in SliceKeys, out \in Outcomes : ReconcileGet(k, out) <=> InlineGet(k, out)
        /\ \A out \in Outcomes : ReconcileList(out) <=> InlineList(out)
        /\ \A out \in Outcomes : syncToDatabase(out) <=> InlineBegin(out)
        /\ \A uid \in DOMAIN desired, out \in Outcomes :
              upsertRows(uid, out) <=> InlineUpsert(uid, out)
        /\ \A out \in Outcomes : pruneRows(out) <=> InlinePrune(out)
        /\ \A out \in Outcomes : Commit(out) <=> InlineCommit(out) ]_vars

\* the one-function Reconcile has committed a second convergence of two
\* identities on the table the first one left
C36_Witness ==
    /\ impl = "inline"
    /\ esPc = "returned"
    /\ esResult = Result(RequeueAfter, "")
    /\ esLog.msg = "synced endpoints"
    /\ esLog.count = 2
    /\ clock = 2
    /\ Uids(PartitionOf(table, "c1", "ns1", "svcA")) = {"u1", "ns1/svcA/10.0.0.2"}

====
